---- MODULE Spec2Model ----
(***************************************************************************)
(* Model of the mid-tier register allocator                                *)
(* (src/src/compiler/backend/mid-tier-register-allocator.cc).              *)
(*                                                                         *)
(* The allocator is a deterministic transformation of an instruction       *)
(* sequence.  Init draws the instruction sequence from a bounded family of *)
(* SSA programs; the actions are the steps of the driver: DefineOutputs    *)
(* per block, the operand verbs of AllocateRegisters per operand,          *)
(* UpdateSpillRangesForLoops, MidTierSpillSlotAllocator::Allocate per      *)
(* spilled vreg and PopulateReferenceMaps.                                 *)
(*                                                                         *)
(* Operands are mutated in place through pointers in the code, so every    *)
(* operand lives at a location (a 5-tuple) and `ops` maps locations to     *)
(* operand values; a pointer is a location, nullptr is NoLoc.              *)
(***************************************************************************)
EXTENDS Integers, Sequences, FiniteSets, TLC

VARIABLES
  code,            \* the instruction sequence: blocks, instruction flags, vreg representations (read-only)
  ops,             \* operand store: location -> InstructionOperand
  vdata,           \* virtual_register_data_: vreg -> VirtualRegisterData
  dominated,       \* block_states_: rpo number -> dominated_blocks_ bit vector
  refmap_instrs,   \* reference_map_instructions_ (in push_back order)
  spilled,         \* spilled_virtual_registers_ bit vector
  has_state,       \* per kind: register_state_ != nullptr
  regs,            \* per kind: RegisterState::register_data_
  v2r,             \* per kind: virtual_register_to_reg_
  in_use_start,    \* per kind: in_use_at_instr_start_bits_
  in_use_end,      \* per kind: in_use_at_instr_end_bits_
  allocated_bits,  \* per kind: allocated_registers_bits_
  assigned,        \* per kind: assigned_registers_ (register codes)
  frame,           \* Frame: widths of the spill slots handed out, and the register sets set at the end
  slot_alloc,      \* MidTierSpillSlotAllocator: allocated_slots_, free_slots_, position_, and the vregs still to allocate
  refmaps,         \* instruction -> set of operands recorded in its reference map
  failed,          \* a DCHECK / CHECK that fails (fatal, no recovery); "" when none
  pc,              \* position of the driver
  slices,          \* torque_internal: the two Slice<T> structs of the caller
  iter,            \* torque_internal: the SliceIterator<T> made by Slice::Iterator()
  iter_seq,        \* torque_internal: the IteratorSequence over the iterators of both slices
  iter_yield,      \* what the calls of iter.NextReference() returned, in call order
  seq_yield,       \* what the calls of iter_seq.Next() returned, in call order
  lookup           \* the last call of Slice::TryAtIndex: its index and what it returned

allocator_vars ==
  <<code, ops, vdata, dominated, refmap_instrs, spilled, has_state, regs,
    v2r, in_use_start, in_use_end, allocated_bits, assigned, frame,
    slot_alloc, refmaps, failed, pc>>

torque_vars == <<slices, iter, iter_seq, iter_yield, seq_yield, lookup>>

vars == <<allocator_vars, torque_vars>>

-----------------------------------------------------------------------------
(* Program constants *)

kInvalidVirtualRegister == -1
kInvalidIndex == -1
kMaxInt == 2147483647

Kinds == {"general", "double"}

\* RegisterConfiguration: allocatable register codes per kind, by register index.
AllocatableCodes(kind) == IF kind = "general" THEN <<1, 3>> ELSE <<0, 2>>
num_allocatable_registers(kind) == Len(AllocatableCodes(kind))
RegIndices(kind) == 0 .. (num_allocatable_registers(kind) - 1)

\* Machine representations of the model and the queries made on them.
Reps == {"kWord32", "kTagged", "kFloat64"}
IsFloatingPoint(rep) == rep = "kFloat64"
ByteWidthForStackSlot(rep) == IF rep = "kFloat64" THEN 8 ELSE 4
KindOfRep(rep) == IF IsFloatingPoint(rep) THEN "double" ELSE "general"

-----------------------------------------------------------------------------
(* Locations and operands *)

NoLoc == <<"NULL", -1, "", -1, "">>
InstrLoc(i, what, k) == <<"I", i, what, k, "op">>
GapLoc(i, pos, k, end) == <<"G", i, pos, k, end>>
ZoneLoc(v) == <<"Z", v, "fixed_spill", 0, "op">>

InvalidOperand ==
  [kind |-> "INVALID", vreg |-> kInvalidVirtualRegister, policy |-> "NONE",
   fixed |-> -1, at_start |-> FALSE, loc |-> "NONE", rep |-> "kNone",
   index |-> -1, next |-> NoLoc]

UnallocatedOperand(policy, fixed, at_start, v) ==
  [InvalidOperand EXCEPT !.kind = "UNALLOCATED", !.vreg = v, !.policy = policy,
                         !.fixed = fixed, !.at_start = at_start]

ConstantOperand(v) ==
  [InvalidOperand EXCEPT !.kind = "CONSTANT", !.vreg = v]

AllocatedOperand(loc, rep, index) ==
  [InvalidOperand EXCEPT !.kind = "ALLOCATED", !.loc = loc, !.rep = rep, !.index = index]

PendingOperand(next) ==
  [InvalidOperand EXCEPT !.kind = "PENDING", !.next = next]

IsUnallocated(op) == op.kind = "UNALLOCATED"
IsConstant(op) == op.kind = "CONSTANT"
IsAllocated(op) == op.kind = "ALLOCATED"
IsPending(op) == op.kind = "PENDING"

HasFixedSlotPolicy(op) == op.policy = "FIXED_SLOT"
HasSlotPolicy(op) == op.policy = "MUST_HAVE_SLOT"
HasRegisterPolicy(op) == op.policy = "MUST_HAVE_REGISTER"
HasRegisterOrSlotPolicy(op) == op.policy = "REGISTER_OR_SLOT"
HasRegisterOrSlotOrConstantPolicy(op) == op.policy = "REGISTER_OR_SLOT_OR_CONSTANT"
HasFixedRegisterPolicy(op) == op.policy = "FIXED_REGISTER"
HasFixedFPRegisterPolicy(op) == op.policy = "FIXED_FP_REGISTER"
HasSameAsInputPolicy(op) == op.policy = "SAME_AS_FIRST_INPUT"
HasFixedPolicy(op) ==
  HasFixedSlotPolicy(op) \/ HasFixedRegisterPolicy(op) \/ HasFixedFPRegisterPolicy(op)

-----------------------------------------------------------------------------
(* The instruction sequence (read-only part) *)

NumInstr == Len(code.instrs)
NumBlocks == Len(code.blocks)
InstrIds == 0 .. (NumInstr - 1)
BlockIds == 0 .. (NumBlocks - 1)
VregIds == 0 .. (Len(code.rep) - 1)

InstructionAt(i) == code.instrs[i + 1]
InstructionBlockAt(b) == code.blocks[b + 1]

\* Instruction::block(): the rpo number of the block that holds instruction i.
BlockOfInstr(i) ==
  CHOOSE b \in BlockIds :
    InstructionBlockAt(b).first <= i /\ i <= InstructionBlockAt(b).last

RepresentationFor(v) ==
  IF v = kInvalidVirtualRegister THEN "kWord32" ELSE code.rep[v + 1]

IsReference(v) == code.rep[v + 1] = "kTagged"

KindOf(v) == KindOfRep(RepresentationFor(v))

OutputCount(i) == Len(InstructionAt(i).out)
InputCount(i) == Len(InstructionAt(i).in)
TempCount(i) == Len(InstructionAt(i).tmp)

\* Number of moves in the ParallelMove at position pos of instruction i.
NumMoves(s, i, pos) ==
  Cardinality({l \in DOMAIN s.ops : l[1] = "G" /\ l[2] = i /\ l[3] = pos /\ l[5] = "src"})

ReplaceWith(s, loc, op) == [s EXCEPT !.ops = (loc :> op) @@ s.ops]

AddGapMove(s, i, pos, from, to) ==
  LET k == NumMoves(s, i, pos) IN
  [s EXCEPT !.ops = (GapLoc(i, pos, k, "src") :> from) @@
                    (GapLoc(i, pos, k, "dst") :> to) @@ s.ops]

AddPendingOperandGapMove(s, i, pos) ==
  AddGapMove(s, i, pos, PendingOperand(NoLoc), PendingOperand(NoLoc))

\* The location of the move AddGapMove has just added at (i, pos).
LastMoveLoc(s, i, pos, end) == GapLoc(i, pos, NumMoves(s, i, pos) - 1, end)

GetBlocksDominatedBy(i) == BlockOfInstr(i)

-----------------------------------------------------------------------------
(* Range *)

EmptyRange == [start |-> kMaxInt, end |-> 0]
Range(a, b) == [start |-> a, end |-> b]
Min(a, b) == IF a < b THEN a ELSE b
Max(a, b) == IF a > b THEN a ELSE b
\* Extends a range at its end only.
AddInstrAtEnd(r, i) == [start |-> r.start, end |-> Max(r.end, i)]

AddInstr(r, i) == [start |-> Min(r.start, i), end |-> Max(r.end, i)]
AddRange(r, o) == [start |-> Min(r.start, o.start), end |-> Max(r.end, o.end)]
Contains(r, i) == i >= r.start /\ i <= r.end

-----------------------------------------------------------------------------
(* VirtualRegisterData *)

DefaultVirtualRegisterData ==
  [vreg |-> 0, spill_operand |-> NoLoc, has_spill_range |-> FALSE,
   live_range |-> EmptyRange, live_blocks |-> -1, output_instr_index |-> 0,
   is_phi |-> FALSE, is_constant |-> FALSE]

Initialize(s, v, spill_operand, instr_index, is_phi, is_constant) ==
  [s EXCEPT !.vdata[v] =
     [vreg |-> v, spill_operand |-> spill_operand, has_spill_range |-> FALSE,
      live_range |-> EmptyRange, live_blocks |-> -1,
      output_instr_index |-> instr_index, is_phi |-> is_phi,
      is_constant |-> is_constant]]

DefineAsConstantOperand(s, loc, instr_index) ==
  Initialize(s, s.ops[loc].vreg, loc, instr_index, FALSE, TRUE)

DefineAsFixedSpillOperand(s, loc, v, instr_index) ==
  Initialize(s, v, loc, instr_index, FALSE, FALSE)

DefineAsUnallocatedOperand(s, v, instr_index) ==
  Initialize(s, v, NoLoc, instr_index, FALSE, FALSE)

DefineAsPhi(s, v, instr_index) ==
  Initialize(s, v, NoLoc, instr_index, TRUE, FALSE)

HasSpillOperand(s, v) == s.vdata[v].spill_operand # NoLoc
spill_operand(s, v) == s.ops[s.vdata[v].spill_operand]
HasPendingSpillOperand(s, v) == HasSpillOperand(s, v) /\ IsPending(spill_operand(s, v))
HasAllocatedSpillOperand(s, v) == HasSpillOperand(s, v) /\ IsAllocated(spill_operand(s, v))
HasConstantSpillOperand(s, v) == s.vdata[v].is_constant
HasSpillRange(s, v) == s.vdata[v].has_spill_range
\* No output needs a move to a spill slot.
NeverSpillAtOutput(s, v) == FALSE

NeedsSpillAtOutput(s, v) == HasSpillOperand(s, v) /\ ~s.vdata[v].is_constant

\* SpillRange(int definition_instr_index, data)
SpillRangeForOutput(definition_instr_index) ==
  [live_range |-> Range(definition_instr_index, definition_instr_index),
   live_blocks |-> GetBlocksDominatedBy(definition_instr_index)]

RECURSIVE AddPredecessorInstrs(_, _)
AddPredecessorInstrs(r, preds) ==
  IF preds = <<>> THEN r
  ELSE AddPredecessorInstrs(AddInstr(r, InstructionBlockAt(Head(preds)).last), Tail(preds))

\* A phi spill range that covers the first instruction of the phi block only.
SpillRangeForPhiBlockOnly(phi_block) ==
  LET first == InstructionBlockAt(phi_block).first IN
  [live_range |-> Range(first, first), live_blocks |-> GetBlocksDominatedBy(first)]

\* SpillRange(const InstructionBlock* phi_block, data)
SpillRangeForPhi(phi_block) ==
  LET first == InstructionBlockAt(phi_block).first IN
  [live_range |-> AddPredecessorInstrs(Range(first, first),
                                       InstructionBlockAt(phi_block).predecessors),
   live_blocks |-> GetBlocksDominatedBy(first)]

EnsureSpillRange(s, v) ==
  IF HasSpillRange(s, v) THEN s
  ELSE
    LET vd == s.vdata[v]
        sr == IF vd.is_phi
              THEN SpillRangeForPhi(BlockOfInstr(vd.output_instr_index))
              ELSE SpillRangeForOutput(vd.output_instr_index + 1)
    IN [s EXCEPT !.vdata[v].has_spill_range = TRUE,
                 !.vdata[v].live_range = sr.live_range,
                 !.vdata[v].live_blocks = sr.live_blocks,
                 !.spilled = @ \cup {v}]

ExtendRangeTo(s, v, instr_index) ==
  [s EXCEPT !.vdata[v].live_range = AddInstr(@, instr_index)]

\* Extends the spill range of any vreg, constants as well.
AddSpillUseOfAny(s, v, instr_index) ==
  ExtendRangeTo(EnsureSpillRange(s, v), v, instr_index)

AddSpillUse(s, v, instr_index) ==
  IF s.vdata[v].is_constant THEN s
  ELSE ExtendRangeTo(EnsureSpillRange(s, v), v, instr_index)

\* Live wherever the live range reaches, whatever the block.
IsLiveInRange(s, v, instr_index, block) ==
  Contains(s.vdata[v].live_range, instr_index)

\* IsLiveAt(instr_index, block)
IsLiveAt(s, v, instr_index, block) ==
  /\ Contains(s.vdata[v].live_range, instr_index)
  /\ block \in s.dominated[s.vdata[v].live_blocks]

\* Makes the operand the spill operand without linking the chain behind it.
AddPendingSpillOperandUnlinked(s, v, pending_loc) ==
  [s EXCEPT !.vdata[v].spill_operand = pending_loc]

\* pending_op must already hold a PendingOperand with a null next.
AddPendingSpillOperand(s, v, pending_loc) ==
  LET s1 == IF HasSpillOperand(s, v)
            THEN [s EXCEPT !.ops[pending_loc].next = s.vdata[v].spill_operand]
            ELSE s
  IN [s1 EXCEPT !.vdata[v].spill_operand = pending_loc]

\* Chains the operand as pending whatever the spill operand already is.
SpillOperandAlwaysPending(s, v, loc, instr_index) ==
  AddPendingSpillOperand(
    ReplaceWith(AddSpillUse(s, v, instr_index), loc, PendingOperand(NoLoc)), v, loc)

SpillOperand(s, v, loc, instr_index) ==
  LET Replace(s1) ==
        IF HasAllocatedSpillOperand(s1, v) \/ HasConstantSpillOperand(s1, v)
        THEN ReplaceWith(s1, loc, spill_operand(s1, v))
        ELSE AddPendingSpillOperand(ReplaceWith(s1, loc, PendingOperand(NoLoc)), v, loc)
  IN Replace(AddSpillUse(s, v, instr_index))

\* Records the spill use and adds no gap move.
EmitNoGapMove(s, v, to_operand, instr_index) == AddSpillUse(s, v, instr_index)

EmitGapMoveToInputFromSpillSlot(s, v, to_operand, instr_index) ==
  LET PendingMove(s2) ==
        ReplaceWith(AddPendingSpillOperand(s2, v, LastMoveLoc(s2, instr_index, "END", "src")),
                    LastMoveLoc(s2, instr_index, "END", "dst"), to_operand)
      Emit(s1) ==
        IF HasAllocatedSpillOperand(s1, v) \/ HasConstantSpillOperand(s1, v)
        THEN AddGapMove(s1, instr_index, "END", spill_operand(s1, v), to_operand)
        ELSE PendingMove(AddPendingOperandGapMove(s1, instr_index, "END"))
  IN Emit(AddSpillUse(s, v, instr_index))

EmitGapMoveToSpillSlot(s, v, from_operand, instr_index) ==
  LET PendingMove(s2) ==
        AddPendingSpillOperand(
          ReplaceWith(s2, LastMoveLoc(s2, instr_index, "START", "src"), from_operand),
          v, LastMoveLoc(s2, instr_index, "START", "dst"))
      Emit(s1) ==
        IF HasAllocatedSpillOperand(s1, v) \/ HasConstantSpillOperand(s1, v)
        THEN AddGapMove(s1, instr_index, "START", from_operand, spill_operand(s1, v))
        ELSE PendingMove(AddPendingOperandGapMove(s1, instr_index, "START"))
  IN Emit(AddSpillUse(s, v, instr_index))

Fail(s, what) == IF s.failed = "" THEN [s EXCEPT !.failed = what] ELSE s

RECURSIVE EmitGapMoveToSuccessors(_, _, _, _)
EmitGapMoveToSuccessors(s, v, from_operand, succs) ==
  IF succs = <<>> THEN s
  ELSE
    LET successor == InstructionBlockAt(Head(succs))
        s1 == IF Len(successor.predecessors) # 1
              THEN Fail(s, "DCHECK_EQ(1, successor->PredecessorCount())")
              ELSE s
    IN EmitGapMoveToSuccessors(EmitGapMoveToSpillSlot(s1, v, from_operand, successor.first),
                               v, from_operand, Tail(succs))

\* Always adds the move at the next instruction in order.
EmitGapMoveAfter(s, v, from_operand, current_block, instr_index) ==
  EmitGapMoveToSpillSlot(s, v, from_operand, instr_index + 1)

EmitGapMoveFromOutputToSpillSlot(s, v, from_operand, current_block, instr_index) ==
  IF instr_index = InstructionBlockAt(current_block).last
  THEN EmitGapMoveToSuccessors(s, v, from_operand, InstructionBlockAt(current_block).successors)
  ELSE EmitGapMoveToSpillSlot(s, v, from_operand, instr_index + 1)

\* Resolves the head of the pending chain only.
AllocatePendingHead(s, current, allocated) ==
  IF current = NoLoc THEN s ELSE ReplaceWith(s, current, allocated)

RECURSIVE AllocatePendingChain(_, _, _)
AllocatePendingChain(s, current, allocated) ==
  IF current = NoLoc THEN s
  ELSE AllocatePendingChain(ReplaceWith(s, current, allocated), s.ops[current].next, allocated)

AllocatePendingSpillOperand(s, v, allocated) ==
  AllocatePendingChain(s, s.vdata[v].spill_operand, allocated)

-----------------------------------------------------------------------------
(* RegisterState and RegisterState::Register *)

NoRegisterData ==
  [has_data |-> FALSE, needs_gap_move_on_spill |-> FALSE,
   last_use_instr_index |-> -1, virtual_register |-> kInvalidVirtualRegister,
   pending_uses |-> NoLoc]

\* Register::Reset (and the Register constructor)
ResetRegister == [NoRegisterData EXCEPT !.has_data = TRUE]

\* RegisterState::RegisterState: register_data_ holds a null pointer per register
NewRegisterState(kind) == [r \in RegIndices(kind) |-> NoRegisterData]

reg_data(s, k, r) == s.regs[k][r]
is_allocated(rd) == rd.virtual_register # kInvalidVirtualRegister
HasRegisterData(s, k, r) == reg_data(s, k, r).has_data
RegIsAllocated(s, k, r) == HasRegisterData(s, k, r) /\ is_allocated(reg_data(s, k, r))
HasPendingUsesOnly(s, k, r) == ~reg_data(s, k, r).needs_gap_move_on_spill

StateVirtualRegisterForRegister(s, k, r) ==
  IF RegIsAllocated(s, k, r) THEN reg_data(s, k, r).virtual_register
  ELSE kInvalidVirtualRegister

ResetDataFor(s, k, r) == [s EXCEPT !.regs[k][r] = ResetRegister]

EnsureRegisterData(s, k, r) ==
  IF HasRegisterData(s, k, r) THEN s ELSE [s EXCEPT !.regs[k][r] = ResetRegister]

\* Register::Use
RegisterUse(s, k, r, virtual_register, instr_index) ==
  LET s1 == IF is_allocated(reg_data(s, k, r))
            THEN Fail(s, "DCHECK(!is_allocated()) in Register::Use") ELSE s
  IN [s1 EXCEPT !.regs[k][r].needs_gap_move_on_spill = TRUE,
                !.regs[k][r].virtual_register = virtual_register,
                !.regs[k][r].last_use_instr_index = instr_index]

\* Takes the pending use and stamps the register with its instruction.
RegisterPendingUseRestamp(s, k, r, loc, virtual_register, instr_index) ==
  [ReplaceWith(s, loc, PendingOperand(reg_data(s, k, r).pending_uses))
     EXCEPT !.regs[k][r].pending_uses = loc,
            !.regs[k][r].virtual_register = virtual_register,
            !.regs[k][r].last_use_instr_index = instr_index]

\* Register::PendingUse
RegisterPendingUse(s, k, r, loc, virtual_register, instr_index) ==
  LET Check(s1) ==
        IF reg_data(s1, k, r).virtual_register # virtual_register
        THEN Fail(s1, "DCHECK_EQ(virtual_register_, virtual_register)")
        ELSE IF reg_data(s1, k, r).last_use_instr_index < instr_index
        THEN Fail(s1, "DCHECK_GE(last_use_instr_index_, instr_index)")
        ELSE s1
      Push(s2) ==
        [ReplaceWith(s2, loc, PendingOperand(reg_data(s2, k, r).pending_uses))
           EXCEPT !.regs[k][r].pending_uses = loc]
  IN Push(Check(IF ~is_allocated(reg_data(s, k, r))
                THEN [s EXCEPT !.regs[k][r].virtual_register = virtual_register,
                               !.regs[k][r].last_use_instr_index = instr_index]
                ELSE s))

RECURSIVE CommitPendingUses(_, _, _)
CommitPendingUses(s, pending_use, allocated_op) ==
  IF pending_use = NoLoc THEN s
  ELSE CommitPendingUses(ReplaceWith(s, pending_use, allocated_op),
                         s.ops[pending_use].next, allocated_op)

\* Forgets the pending uses of the register without resolving them.
DropPendingUses(s, k, r, allocated_op) ==
  [s EXCEPT !.regs[k][r].pending_uses = NoLoc]

\* Register::Commit
RegisterCommit(s, k, r, allocated_op) ==
  [CommitPendingUses(s, reg_data(s, k, r).pending_uses, allocated_op)
     EXCEPT !.regs[k][r].pending_uses = NoLoc]

RECURSIVE SpillPendingChain(_, _, _, _)
SpillPendingChain(s, v, pending_use, last_use) ==
  IF pending_use = NoLoc THEN s
  ELSE SpillPendingChain(SpillOperand(s, v, pending_use, last_use), v,
                         s.ops[pending_use].next, last_use)

\* Register::SpillPendingUses
SpillPendingUses(s, k, r) ==
  LET rd == reg_data(s, k, r)
  IN [SpillPendingChain(s, rd.virtual_register, rd.pending_uses, rd.last_use_instr_index)
        EXCEPT !.regs[k][r].pending_uses = NoLoc]

\* Spills the register with a gap move whatever its uses were.
RegisterSpillWithGapMove(s, k, r, allocated_op) ==
  LET rd == reg_data(s, k, r)
      s1 == EmitGapMoveToInputFromSpillSlot(s, rd.virtual_register, allocated_op,
                                            rd.last_use_instr_index)
  IN [SpillPendingUses(s1, k, r) EXCEPT !.regs[k][r].virtual_register = kInvalidVirtualRegister]

\* Register::Spill
RegisterSpill(s, k, r, allocated_op) ==
  LET rd == reg_data(s, k, r)
      s1 == IF rd.needs_gap_move_on_spill
            THEN EmitGapMoveToInputFromSpillSlot(s, rd.virtual_register, allocated_op,
                                                 rd.last_use_instr_index)
            ELSE s
  IN [SpillPendingUses(s1, k, r) EXCEPT !.regs[k][r].virtual_register = kInvalidVirtualRegister]

\* RegisterState::Commit
StateCommit(s, k, r, allocated, loc) ==
  LET Commit(s1) ==
        IF RegIsAllocated(s1, k, r)
        THEN ResetDataFor(RegisterCommit(s1, k, r, allocated), k, r)
        ELSE s1
  IN Commit(ReplaceWith(s, loc, allocated))

\* RegisterState::Spill
StateSpill(s, k, r, allocated) == ResetDataFor(RegisterSpill(s, k, r, allocated), k, r)

\* RegisterState::AllocateUse
StateAllocateUse(s, k, r, virtual_register, instr_index) ==
  RegisterUse(EnsureRegisterData(s, k, r), k, r, virtual_register, instr_index)

\* RegisterState::AllocatePendingUse
StateAllocatePendingUse(s, k, r, virtual_register, loc, instr_index) ==
  RegisterPendingUse(EnsureRegisterData(s, k, r), k, r, loc, virtual_register, instr_index)

-----------------------------------------------------------------------------
(* SinglePassRegisterAllocator *)

Invalid == kInvalidIndex
is_valid(r) == r # kInvalidIndex

\* reg_code_to_index_: the inverse of index_to_reg_code_; codes that are not
\* allocatable keep the default RegisterIndex (invalid).
FromRegCode(k, reg_code) ==
  IF \E r \in RegIndices(k) : AllocatableCodes(k)[r + 1] = reg_code
  THEN CHOOSE r \in RegIndices(k) : AllocatableCodes(k)[r + 1] = reg_code
  ELSE Invalid

ToRegCode(k, r) == AllocatableCodes(k)[r + 1]

\* A register operand that carries the register's index in place of its code.
AllocatedOperandForIndex(k, r, virtual_register) ==
  AllocatedOperand("REGISTER", RepresentationFor(virtual_register), r)

AllocatedOperandForReg(k, r, virtual_register) ==
  AllocatedOperand("REGISTER", RepresentationFor(virtual_register), ToRegCode(k, r))

VirtualRegisterForRegister(s, k, r) == StateVirtualRegisterForRegister(s, k, r)

RegisterForVirtualRegister(s, k, virtual_register) == s.v2r[k][virtual_register]

VirtualRegisterIsUnallocatedOrInReg(s, k, virtual_register, r) ==
  LET existing_reg == RegisterForVirtualRegister(s, k, virtual_register)
  IN ~is_valid(existing_reg) \/ existing_reg = r

IsFreeOrSameVirtualRegister(s, k, r, virtual_register) ==
  LET allocated_vreg == VirtualRegisterForRegister(s, k, r)
  IN allocated_vreg = kInvalidVirtualRegister \/ allocated_vreg = virtual_register

EnsureRegisterState(s, k) ==
  IF s.has_state[k] THEN s
  ELSE [s EXCEPT !.has_state[k] = TRUE, !.regs[k] = NewRegisterState(k)]

\* The CHECKs of CheckConsistency (compiled in debug builds).
ConsistentMaps(s, k) ==
  /\ \A v \in VregIds :
       LET r == s.v2r[k][v] IN
       is_valid(r) => (VirtualRegisterForRegister(s, k, r) = v /\ r \in s.allocated_bits[k])
  /\ \A r \in RegIndices(k) :
       LET v == VirtualRegisterForRegister(s, k, r) IN
       v # kInvalidVirtualRegister => (s.v2r[k][v] = r /\ r \in s.allocated_bits[k])

CheckConsistency(s, k) ==
  IF ConsistentMaps(s, k) THEN s ELSE Fail(s, "CheckConsistency")

\* Marks nothing.
MarkNoRegisterUse(s, k, r, pos) == s

MarkRegisterUse(s, k, r, pos) ==
  LET s1 == IF pos = "kStart" \/ pos = "kAll"
            THEN [s EXCEPT !.in_use_start[k] = @ \cup {r}] ELSE s
  IN IF pos = "kEnd" \/ pos = "kAll"
     THEN [s1 EXCEPT !.in_use_end[k] = @ \cup {r}] ELSE s1

\* Maps the vreg to the register and marks the use, without the allocated bit.
AssignRegisterUnmarked(s, k, r, virtual_register, pos) ==
  LET s1 == [s EXCEPT !.assigned[k] = @ \cup {ToRegCode(k, r)}]
      s2 == MarkRegisterUse(s1, k, r, pos)
  IN IF virtual_register # kInvalidVirtualRegister
     THEN [s2 EXCEPT !.v2r[k][virtual_register] = r] ELSE s2

AssignRegister(s, k, r, virtual_register, pos) ==
  LET s1 == [s EXCEPT !.assigned[k] = @ \cup {ToRegCode(k, r)}]
      s2 == MarkRegisterUse(s1, k, r, pos)
      s3 == [s2 EXCEPT !.allocated_bits[k] = @ \cup {r}]
  IN IF virtual_register # kInvalidVirtualRegister
     THEN [s3 EXCEPT !.v2r[k][virtual_register] = r] ELSE s3

\* Clears the allocated bit but leaves the vreg mapped to the register.
FreeRegisterBitOnly(s, k, r, virtual_register) ==
  [s EXCEPT !.allocated_bits[k] = @ \ {r}]

FreeRegister(s, k, r, virtual_register) ==
  LET s1 == [s EXCEPT !.allocated_bits[k] = @ \ {r}]
  IN IF virtual_register # kInvalidVirtualRegister
     THEN [s1 EXCEPT !.v2r[k][virtual_register] = Invalid] ELSE s1

\* The bits in use at the start of the instruction, whatever the position.
InUseAtStartOnly(s, k, pos) == s.in_use_start[k]

InUseBitmap(s, k, pos) ==
  CASE pos = "kStart" -> s.in_use_start[k]
    [] pos = "kEnd" -> s.in_use_end[k]
    [] pos = "kAll" -> s.in_use_start[k] \cup s.in_use_end[k]

SetMin(S) == CHOOSE x \in S : \A y \in S : x <= y

\* The lowest register that holds no vreg, in use or not.
ChooseUnallocatedRegister(s, k, pos) ==
  LET free == RegIndices(k) \ s.allocated_bits[k]
  IN IF free = {} THEN Invalid ELSE SetMin(free)

ChooseFreeRegister(s, k, pos) ==
  LET allocated_or_in_use == InUseBitmap(s, k, pos) \cup s.allocated_bits[k]
      free == RegIndices(k) \ allocated_or_in_use
  IN IF free = {} THEN Invalid ELSE SetMin(free)

\* The loop of ChooseRegisterToSpill over the registers r .. num_allocatable-1.
RECURSIVE ChooseRegisterToSpillFrom(_, _, _, _, _)
ChooseRegisterToSpillFrom(s, k, in_use, r, acc) ==
  IF r >= num_allocatable_registers(k) THEN acc
  ELSE IF r \in in_use THEN ChooseRegisterToSpillFrom(s, k, in_use, r + 1, acc)
  ELSE
    LET v == VirtualRegisterForRegister(s, k, r) IN
    IF v = kInvalidVirtualRegister
    THEN [acc EXCEPT !.bad = TRUE]
    ELSE
      LET vd == s.vdata[v]
          take == \/ (~acc.pending_only_use /\ HasPendingUsesOnly(s, k, r))
                  \/ (~acc.already_spilled /\ HasSpillOperand(s, v))
                  \/ vd.output_instr_index < acc.earliest_definition
          acc1 == IF take
                  THEN [chosen_reg |-> r,
                        earliest_definition |-> vd.output_instr_index,
                        pending_only_use |-> HasPendingUsesOnly(s, k, r),
                        already_spilled |-> HasSpillOperand(s, v),
                        bad |-> acc.bad]
                  ELSE acc
      IN ChooseRegisterToSpillFrom(s, k, in_use, r + 1, acc1)

\* The scan taken over all registers, in use or not.
ChooseRegisterToSpillInUse(s, k, pos) ==
  ChooseRegisterToSpillFrom(s, k, {}, 0,
    [chosen_reg |-> Invalid, earliest_definition |-> kMaxInt,
     pending_only_use |-> FALSE, already_spilled |-> FALSE, bad |-> FALSE])

ChooseRegisterToSpillScan(s, k, pos) ==
  ChooseRegisterToSpillFrom(s, k, InUseBitmap(s, k, pos), 0,
    [chosen_reg |-> Invalid, earliest_definition |-> kMaxInt,
     pending_only_use |-> FALSE, already_spilled |-> FALSE, bad |-> FALSE])

ChooseRegisterToSpill(s, k, pos) == ChooseRegisterToSpillScan(s, k, pos).chosen_reg

\* SpillRegister; an invalid register index (no register could be chosen) is
\* the failed DCHECK(chosen_reg.is_valid()) of the caller.
SpillRegister(s, k, r) ==
  IF ~is_valid(r) THEN Fail(s, "DCHECK(chosen_reg.is_valid())")
  ELSE IF ~RegIsAllocated(s, k, r) THEN s
  ELSE
    LET virtual_register == VirtualRegisterForRegister(s, k, r)
        allocated == AllocatedOperandForReg(k, r, virtual_register)
        s1 == StateSpill(s, k, r, allocated)
    IN FreeRegister(s1, k, r, virtual_register)

RECURSIVE SpillRegistersFrom(_, _, _)
SpillRegistersFrom(s, k, r) ==
  IF r >= num_allocatable_registers(k) THEN s
  ELSE SpillRegistersFrom(SpillRegister(s, k, r), k, r + 1)

\* Leaves every register as it is.
SpillNoRegisters(s, k) == s

\* Spills the first register of the kind only.
SpillFirstRegister(s, k) ==
  IF ~s.has_state[k] THEN s ELSE SpillRegister(s, k, 0)

SpillAllRegisters(s, k) ==
  IF ~s.has_state[k] THEN s ELSE SpillRegistersFrom(s, k, 0)

SpillRegisterForVirtualRegister(s, k, virtual_register) ==
  LET r == RegisterForVirtualRegister(s, k, virtual_register)
  IN IF is_valid(r) THEN SpillRegister(s, k, r) ELSE s

\* Gives the free register if there is one and spills nothing for the use.
ChooseWithoutSpill(s, k, pos, must_use_register) ==
  [s |-> s, reg |-> ChooseFreeRegister(s, k, pos)]

\* ChooseRegisterFor(MachineRepresentation, pos, must_use_register): the
\* result is the state after a possible spill and the chosen register.
ChooseRegisterForRep(s, k, pos, must_use_register) ==
  LET SpillChosen(scan) ==
        [s |-> SpillRegister(IF scan.bad THEN Fail(s, "VirtualRegisterDataFor(invalid)")
                             ELSE s, k, scan.chosen_reg),
         reg |-> scan.chosen_reg]
      Choose(r) ==
        IF ~is_valid(r) /\ must_use_register
        THEN SpillChosen(ChooseRegisterToSpillScan(s, k, pos))
        ELSE [s |-> s, reg |-> r]
  IN Choose(ChooseFreeRegister(s, k, pos))

\* Chooses a register for the use without asking where the vreg is.
ChooseRegisterAnew(s, k, v, pos, must_use_register) ==
  ChooseRegisterForRep(s, k, pos, must_use_register)

\* ChooseRegisterFor(VirtualRegisterData&, pos, must_use_register)
ChooseRegisterFor(s, k, v, pos, must_use_register) ==
  LET r == RegisterForVirtualRegister(s, k, v) IN
  IF ~is_valid(r) /\ (must_use_register \/ ~HasSpillOperand(s, v))
  THEN ChooseRegisterForRep(s, k, pos, must_use_register)
  ELSE [s |-> s, reg |-> r]

\* Commits the operand and keeps the register assigned to the vreg.
CommitAndKeepRegister(s, k, r, virtual_register, loc, pos) ==
  AssignRegister(StateCommit(s, k, r, AllocatedOperandForReg(k, r, virtual_register), loc),
                 k, r, virtual_register, pos)

CommitRegister(s, k, r, virtual_register, loc, pos) ==
  LET allocated == AllocatedOperandForReg(k, r, virtual_register)
      s1 == StateCommit(s, k, r, allocated, loc)
      s2 == MarkRegisterUse(s1, k, r, pos)
      s3 == FreeRegister(s2, k, r, virtual_register)
  IN CheckConsistency(s3, k)

AllocateUse(s, k, r, virtual_register, loc, instr_index, pos) ==
  LET s0 == IF IsFreeOrSameVirtualRegister(s, k, r, virtual_register) THEN s
            ELSE Fail(s, "DCHECK(IsFreeOrSameVirtualRegister(reg, virtual_register))")
      allocated == AllocatedOperandForReg(k, r, virtual_register)
      s1 == StateCommit(s0, k, r, allocated, loc)
      s2 == StateAllocateUse(s1, k, r, virtual_register, instr_index)
      s3 == AssignRegister(s2, k, r, virtual_register, pos)
  IN CheckConsistency(s3, k)

\* Takes the pending use and marks the register in use at the start.
AllocatePendingUseAtStart(s, k, r, virtual_register, loc, instr_index) ==
  CheckConsistency(
    AssignRegister(StateAllocatePendingUse(s, k, r, virtual_register, loc, instr_index),
                   k, r, virtual_register, "kStart"), k)

AllocatePendingUse(s, k, r, virtual_register, loc, instr_index) ==
  LET s0 == IF IsFreeOrSameVirtualRegister(s, k, r, virtual_register) THEN s
            ELSE Fail(s, "DCHECK(IsFreeOrSameVirtualRegister(reg, virtual_register))")
      s1 == StateAllocatePendingUse(s0, k, r, virtual_register, loc, instr_index)
      s2 == AssignRegister(s1, k, r, virtual_register, "kNone")
  IN CheckConsistency(s2, k)

AllocateUseWithMove(s, k, r, virtual_register, loc, instr_index, pos) ==
  LET to == AllocatedOperandForReg(k, r, virtual_register)
      from == UnallocatedOperand("REGISTER_OR_SLOT", -1, FALSE, virtual_register)
      s1 == AddGapMove(s, instr_index, "END", from, to)
      s2 == ReplaceWith(s1, loc, to)
      s3 == MarkRegisterUse(s2, k, r, pos)
  IN CheckConsistency(s3, k)

\* A stack-allocated InstructionOperand (move_output_to in AllocateOutput).
LocalLoc == <<"L", 0, "move_output_to", 0, "op">>
DropLocal(s) == [s EXCEPT !.ops = [l \in (DOMAIN s.ops) \ {LocalLoc} |-> s.ops[l]]]

RECURSIVE EmitGapMoveToSuccessorStarts(_, _, _, _)
EmitGapMoveToSuccessorStarts(s, from, to, succs) ==
  IF succs = <<>> THEN s
  ELSE
    LET successor == InstructionBlockAt(Head(succs))
        s1 == IF Len(successor.predecessors) # 1
              THEN Fail(s, "DCHECK_EQ(1, successor->PredecessorCount())")
              ELSE s
    IN EmitGapMoveToSuccessorStarts(AddGapMove(s1, successor.first, "START", from, to),
                                    from, to, Tail(succs))

\* Adds no move from the output to the register the vreg lived in.
EmitNoMoveFromOutput(s, from, to, instr_index) == s

EmitGapMoveFromOutput(s, from, to, instr_index) ==
  LET block == InstructionBlockAt(BlockOfInstr(instr_index)) IN
  IF instr_index = block.last
  THEN EmitGapMoveToSuccessorStarts(s, from, to, block.successors)
  ELSE AddGapMove(s, instr_index + 1, "START", from, to)

AllocateInput(s0, k, loc, instr_index) ==
  LET s == EnsureRegisterState(s0, k)
      operand == s.ops[loc]
      virtual_register == operand.vreg
      rep == RepresentationFor(virtual_register)
  IN
  IF HasFixedSlotPolicy(operand) THEN
    LET input_copy == UnallocatedOperand("REGISTER_OR_SLOT", -1, FALSE, virtual_register)
        allocated == AllocatedOperand("STACK_SLOT", rep, operand.fixed)
        SpillCopy(s2) ==
          SpillOperand(s2, virtual_register, LastMoveLoc(s2, instr_index, "END", "src"),
                       instr_index)
    IN SpillCopy(AddGapMove(ReplaceWith(s, loc, allocated), instr_index, "END",
                            input_copy, allocated))
  ELSE IF HasSlotPolicy(operand) THEN
    SpillOperand(s, virtual_register, loc, instr_index)
  ELSE
    LET pos == IF operand.at_start THEN "kStart" ELSE "kAll" IN
    IF HasFixedRegisterPolicy(operand) \/ HasFixedFPRegisterPolicy(operand) THEN
      LET r == FromRegCode(k, operand.fixed) IN
      IF ~VirtualRegisterIsUnallocatedOrInReg(s, k, virtual_register, r)
      THEN AllocateUseWithMove(s, k, r, virtual_register, loc, instr_index, pos)
      ELSE AllocateUse(s, k, r, virtual_register, loc, instr_index, pos)
    ELSE
      LET must_use_register ==
            \/ HasRegisterPolicy(operand)
            \/ (s.vdata[virtual_register].is_constant /\
                ~HasRegisterOrSlotOrConstantPolicy(operand))
          Allocate(res) ==
            IF res.s.failed # "" THEN res.s
            ELSE IF is_valid(res.reg) THEN
              IF must_use_register
              THEN AllocateUse(res.s, k, res.reg, virtual_register, loc, instr_index, pos)
              ELSE AllocatePendingUse(res.s, k, res.reg, virtual_register, loc, instr_index)
            ELSE SpillOperand(res.s, virtual_register, loc, instr_index)
      IN Allocate(ChooseRegisterFor(s, k, virtual_register, pos, must_use_register))

AllocateGapMoveInput(s0, k, loc, instr_index) ==
  LET s == EnsureRegisterState(s0, k)
      virtual_register == s.ops[loc].vreg
      Allocate(res) ==
        IF is_valid(res.reg)
        THEN AllocatePendingUse(res.s, k, res.reg, virtual_register, loc, instr_index)
        ELSE SpillOperand(res.s, virtual_register, loc, instr_index)
  IN Allocate(ChooseRegisterFor(s, k, virtual_register, "kStart", FALSE))

\* Leaves the register of the constant as it is.
KeepConstantInRegister(s0, k, loc) == EnsureRegisterState(s0, k)

AllocateConstantOutput(s0, k, loc) ==
  LET s == EnsureRegisterState(s0, k)
  IN SpillRegisterForVirtualRegister(s, k, s.ops[loc].vreg)

\* AllocateOutput(operand, instr_index, pos): the state and the register.
AllocateOutputAt(s0, k, loc, instr_index, pos) ==
  LET s == EnsureRegisterState(s0, k)
      operand == s.ops[loc]
      virtual_register == operand.vreg
      \* "if (!VirtualRegisterIsUnallocatedOrInReg(...))": the vreg lives in
      \* another register, which is committed to the local move_output_to.
      CommitExisting(s1, r) ==
        IF ~VirtualRegisterIsUnallocatedOrInReg(s1, k, virtual_register, r)
        THEN CommitRegister(s1, k, RegisterForVirtualRegister(s1, k, virtual_register),
                            virtual_register, LocalLoc, "kNone")
        ELSE s1
      \* "if (move_output_to.IsAllocated())"
      MoveOutput(s3) ==
        IF IsAllocated(s3.ops[LocalLoc])
        THEN EmitGapMoveFromOutput(s3, s3.ops[loc], s3.ops[LocalLoc], instr_index)
        ELSE s3
      \* "if (virtual_register.NeedsSpillAtOutput())"
      SpillAtOutput(s4) ==
        IF NeedsSpillAtOutput(s4, virtual_register)
        THEN EmitGapMoveFromOutputToSpillSlot(s4, virtual_register, s4.ops[loc],
                                              BlockOfInstr(instr_index), instr_index)
        ELSE s4
      Allocate(res) ==
        IF res.s.failed # "" THEN res
        ELSE IF ~is_valid(res.reg)
        THEN [s |-> SpillOperand(res.s, virtual_register, loc, instr_index), reg |-> res.reg]
        ELSE
          [s |-> DropLocal(SpillAtOutput(MoveOutput(
                   CommitRegister(
                     CommitExisting(ReplaceWith(res.s, LocalLoc, InvalidOperand), res.reg),
                     k, res.reg, virtual_register, loc, pos)))),
           reg |-> res.reg]
  IN
  Allocate(IF HasSlotPolicy(operand) \/ HasFixedSlotPolicy(operand)
           THEN [s |-> SpillRegisterForVirtualRegister(s, k, virtual_register),
                 reg |-> Invalid]
           ELSE IF HasFixedPolicy(operand)
           THEN [s |-> s, reg |-> FromRegCode(k, operand.fixed)]
           ELSE ChooseRegisterFor(s, k, virtual_register, pos, HasRegisterPolicy(operand)))

AllocateOutput(s, k, loc, instr_index) ==
  AllocateOutputAt(s, k, loc, instr_index, "kEnd").s

\* Allocates the output on its own and leaves the input as it is.
AllocateOutputAlone(s0, k, output, input, instr_index) ==
  AllocateOutput(s0, k, output, instr_index)

AllocateSameInputOutput(s0, k, output, input, instr_index) ==
  LET s == EnsureRegisterState(s0, k)
      input_vreg == s.ops[input].vreg
      output_vreg == s.ops[output].vreg
      output_as_input == [s.ops[input] EXCEPT !.vreg = output_vreg]
      policy == IF k = "general" THEN "FIXED_REGISTER" ELSE "FIXED_FP_REGISTER"
      unconstrained_input == UnallocatedOperand("REGISTER_OR_SLOT", -1, FALSE, input_vreg)
      SpillMove(s3) ==
        SpillOperand(s3, output_vreg, LastMoveLoc(s3, instr_index, "END", "dst"), instr_index)
      Constrain(res) ==
        IF res.s.failed # "" THEN res.s
        ELSE IF is_valid(res.reg)
        THEN ReplaceWith(res.s, input,
               UnallocatedOperand(policy, ToRegCode(k, res.reg), FALSE, input_vreg))
        ELSE SpillMove(AddGapMove(SpillOperand(res.s, output_vreg, input, instr_index),
                                  instr_index, "END", unconstrained_input,
                                  PendingOperand(NoLoc)))
  IN Constrain(AllocateOutputAt(ReplaceWith(s, output, output_as_input), k, output,
                                instr_index, "kAll"))

AllocateTemp(s0, k, loc, instr_index) ==
  LET s == EnsureRegisterState(s0, k)
      operand == s.ops[loc]
      virtual_register == operand.vreg
      Allocate(res) ==
        IF res.s.failed # "" THEN res.s
        ELSE IF is_valid(res.reg) THEN
          CommitRegister(
            IF virtual_register = kInvalidVirtualRegister
               \/ VirtualRegisterIsUnallocatedOrInReg(res.s, k, virtual_register, res.reg)
            THEN res.s
            ELSE Fail(res.s, "DCHECK(VirtualRegisterIsUnallocatedOrInReg) in AllocateTemp"),
            k, res.reg, virtual_register, loc, "kAll")
        ELSE SpillOperand(res.s, virtual_register, loc, instr_index)
  IN
  Allocate(IF HasSlotPolicy(operand) THEN [s |-> s, reg |-> Invalid]
           ELSE IF HasFixedRegisterPolicy(operand) \/ HasFixedFPRegisterPolicy(operand)
           THEN [s |-> s, reg |-> FromRegCode(k, operand.fixed)]
           ELSE ChooseRegisterForRep(s, k, "kAll", HasRegisterPolicy(operand)))

DefinedAfter(s, virtual_register, instr_index, pos) ==
  IF virtual_register = kInvalidVirtualRegister THEN FALSE
  ELSE LET defined_at == s.vdata[virtual_register].output_instr_index
       IN defined_at > instr_index \/ (defined_at = instr_index /\ pos = "kStart")

ReserveFixedRegister(s0, k, operand, instr_index, pos) ==
  LET s == EnsureRegisterState(s0, k)
      virtual_register == operand.vreg
      r == FromRegCode(k, operand.fixed)
      s1 == IF ~IsFreeOrSameVirtualRegister(s, k, r, virtual_register)
               /\ ~DefinedAfter(s, virtual_register, instr_index, pos)
            THEN SpillRegister(s, k, r)
            ELSE s
  IN MarkRegisterUse(s1, k, r, pos)

ReserveFixedInputRegister(s, k, operand, instr_index) ==
  ReserveFixedRegister(s, k, operand, instr_index,
                       IF operand.at_start THEN "kStart" ELSE "kAll")

ReserveFixedTempRegister(s, k, operand, instr_index) ==
  ReserveFixedRegister(s, k, operand, instr_index, "kAll")

ReserveFixedOutputRegister(s, k, operand, instr_index) ==
  ReserveFixedRegister(s, k, operand, instr_index, "kEnd")

\* Clears the in-use bitmaps and the allocated registers with them.
EndInstructionFreeAll(s, k) ==
  [s EXCEPT !.in_use_end[k] = {}, !.in_use_start[k] = {}, !.allocated_bits[k] = {}]

EndInstructionFor(s, k) ==
  [s EXCEPT !.in_use_end[k] = {}, !.in_use_start[k] = {}]

StartBlockFor(s, k) ==
  IF s.has_state[k] THEN Fail(s, "DCHECK(!HasRegisterState())")
  ELSE IF s.in_use_start[k] # {} THEN Fail(s, "DCHECK_EQ(in_use_at_instr_start_bits_, 0)")
  ELSE IF s.in_use_end[k] # {} THEN Fail(s, "DCHECK_EQ(in_use_at_instr_end_bits_, 0)")
  ELSE IF s.allocated_bits[k] # {} THEN Fail(s, "DCHECK_EQ(allocated_registers_bits_, 0)")
  ELSE s

EndBlockFor(s, k) ==
  LET s1 == IF s.in_use_start[k] # {} THEN Fail(s, "DCHECK_EQ(in_use_at_instr_start_bits_, 0)")
            ELSE IF s.in_use_end[k] # {} THEN Fail(s, "DCHECK_EQ(in_use_at_instr_end_bits_, 0)")
            ELSE s
  IN [s1 EXCEPT !.has_state[k] = FALSE, !.regs[k] = NewRegisterState(k)]

-----------------------------------------------------------------------------
(* MidTierRegisterAllocator *)

AllocatorFor(operand) == KindOf(operand.vreg)

\* Marks the block as dominating itself and tells its dominator nothing.
InitializeBlockStateSelfOnly(s, b) ==
  [s EXCEPT !.dominated[b] = @ \cup {b}]

InitializeBlockState(s, b) ==
  LET s1 == [s EXCEPT !.dominated[b] = @ \cup {b}]
      dominator == InstructionBlockAt(b).dominator
  IN IF dominator >= 0
     THEN [s1 EXCEPT !.dominated[dominator] = @ \cup s1.dominated[b]]
     ELSE IF b # 0 THEN Fail(s1, "DCHECK_EQ(block, instruction_blocks().front())")
     ELSE s1

RECURSIVE DefineInstrOutputs(_, _, _)
DefineInstrOutputs(s, index, i) ==
  IF i >= OutputCount(index) THEN s
  ELSE
    LET loc == InstrLoc(index, "out", i)
        output == s.ops[loc]
        s1 == IF IsConstant(output)
              THEN DefineAsConstantOperand(s, loc, index)
              ELSE IF HasFixedSlotPolicy(output)
              THEN LET fixed_spill_operand ==
                         AllocatedOperand("STACK_SLOT", RepresentationFor(output.vreg),
                                          output.fixed)
                   IN DefineAsFixedSpillOperand(
                        ReplaceWith(s, ZoneLoc(output.vreg), fixed_spill_operand),
                        ZoneLoc(output.vreg), output.vreg, index)
              ELSE DefineAsUnallocatedOperand(s, output.vreg, index)
    IN DefineInstrOutputs(s1, index, i + 1)

RECURSIVE DefineOutputsFrom(_, _, _)
DefineOutputsFrom(s, block_start, index) ==
  IF index < block_start THEN s
  ELSE
    LET s1 == DefineInstrOutputs(s, index, 0)
        s2 == IF InstructionAt(index).has_reference_map
              THEN [s1 EXCEPT !.refmap_instrs = Append(@, index)]
              ELSE s1
    IN DefineOutputsFrom(s2, block_start, index - 1)

RECURSIVE DefinePhis(_, _, _)
DefinePhis(s, phis, first) ==
  IF phis = <<>> THEN s
  ELSE DefinePhis(DefineAsPhi(s, Head(phis), first), Tail(phis), first)

\* DefineOutputs(const InstructionBlock* block)
DefineOutputsBlock(s, b) ==
  LET block == InstructionBlockAt(b)
      s1 == DefineOutputsFrom(s, block.first, block.last)
  IN DefinePhis(s1, block.phis, block.first)

IsFixedRegisterPolicy(operand) ==
  HasFixedRegisterPolicy(operand) \/ HasFixedFPRegisterPolicy(operand)

RECURSIVE ReserveFixedOutputs(_, _, _)
ReserveFixedOutputs(s, instr_index, i) ==
  IF i >= OutputCount(instr_index) THEN s
  ELSE
    LET out == s.ops[InstrLoc(instr_index, "out", i)] IN
    IF ~IsUnallocated(out) THEN ReserveFixedOutputs(s, instr_index, i + 1)
    ELSE
      LET operand == IF HasSameAsInputPolicy(out)
                     THEN s.ops[InstrLoc(instr_index, "in", i)] ELSE out
          s1 == IF IsFixedRegisterPolicy(operand)
                THEN ReserveFixedOutputRegister(s, AllocatorFor(operand), operand, instr_index)
                ELSE s
      IN ReserveFixedOutputs(s1, instr_index, i + 1)

RECURSIVE ReserveFixedTemps(_, _, _)
ReserveFixedTemps(s, instr_index, i) ==
  IF i >= TempCount(instr_index) THEN s
  ELSE
    LET operand == s.ops[InstrLoc(instr_index, "tmp", i)]
        s1 == IF IsUnallocated(operand) /\ IsFixedRegisterPolicy(operand)
              THEN ReserveFixedTempRegister(s, AllocatorFor(operand), operand, instr_index)
              ELSE s
    IN ReserveFixedTemps(s1, instr_index, i + 1)

RECURSIVE ReserveFixedInputs(_, _, _)
ReserveFixedInputs(s, instr_index, i) ==
  IF i >= InputCount(instr_index) THEN s
  ELSE
    LET operand == s.ops[InstrLoc(instr_index, "in", i)]
        s1 == IF IsUnallocated(operand) /\ IsFixedRegisterPolicy(operand)
              THEN ReserveFixedInputRegister(s, AllocatorFor(operand), operand, instr_index)
              ELSE s
    IN ReserveFixedInputs(s1, instr_index, i + 1)

ReserveFixedRegisters(s, instr_index) ==
  ReserveFixedInputs(
    ReserveFixedTemps(
      ReserveFixedOutputs(s, instr_index, 0), instr_index, 0), instr_index, 0)

\* One iteration of the "Allocate outputs" loop of AllocateRegisters(block).
AllocateOutputOf(s, instr_index, i) ==
  LET loc == InstrLoc(instr_index, "out", i)
      output == s.ops[loc]
  IN IF IsConstant(output)
     THEN AllocateConstantOutput(s, AllocatorFor(output), loc)
     ELSE IF HasSameAsInputPolicy(output)
     THEN AllocateSameInputOutput(s, AllocatorFor(output), loc,
                                  InstrLoc(instr_index, "in", 0), instr_index)
     ELSE AllocateOutput(s, AllocatorFor(output), loc, instr_index)

SpillOnClobber(s, instr_index) ==
  LET s1 == IF InstructionAt(instr_index).clobbers
            THEN SpillAllRegisters(s, "general") ELSE s
  IN IF InstructionAt(instr_index).clobbers_double
     THEN SpillAllRegisters(s1, "double") ELSE s1

EndInstruction(s) == EndInstructionFor(EndInstructionFor(s, "general"), "double")

StartBlock(s) == StartBlockFor(StartBlockFor(s, "general"), "double")

\* The tail of AllocateRegisters(block): spill everything, then EndBlock.
EndBlock(s) ==
  LET s1 == SpillAllRegisters(SpillAllRegisters(s, "general"), "double")
  IN EndBlockFor(EndBlockFor(s1, "general"), "double")

RECURSIVE ExtendLiveAtHeader(_, _, _, _)
ExtendLiveAtHeader(s, b, vregs, last_loop_instr) ==
  IF vregs = {} THEN s
  ELSE
    LET v == SetMin(vregs)
        s1 == IF HasSpillRange(s, v) /\ IsLiveAt(s, v, InstructionBlockAt(b).first, b)
              THEN ExtendRangeTo(s, v, last_loop_instr)
              ELSE s
    IN ExtendLiveAtHeader(s1, b, vregs \ {v}, last_loop_instr)

RECURSIVE UpdateSpillRangesFrom(_, _)
UpdateSpillRangesFrom(s, b) ==
  IF b >= NumBlocks THEN s
  ELSE
    LET block == InstructionBlockAt(b)
        s1 == IF block.loop_header
              THEN ExtendLiveAtHeader(s, b, s.spilled,
                                      InstructionBlockAt(block.loop_end - 1).last)
              ELSE s
    IN UpdateSpillRangesFrom(s1, b + 1)

\* Leaves every spill range as register allocation left it.
KeepSpillRanges(s) == s

UpdateSpillRangesForLoops(s) == UpdateSpillRangesFrom(s, 0)

SetAllocatedRegisters(s) ==
  [s EXCEPT !.frame.allocated_registers = s.assigned["general"],
            !.frame.allocated_double_registers = s.assigned["double"]]

-----------------------------------------------------------------------------
(* Frame *)

kSystemPointerSize == 4

\* Frame::AllocateSpillSlot(width): the frame grows by the slots the width
\* takes and the index of the last of them is returned.
FrameAllocateSpillSlot(fr, byte_width) ==
  LET n == (byte_width + kSystemPointerSize - 1) \div kSystemPointerSize
  IN [frame |-> [fr EXCEPT !.slot_count = @ + n, !.widths = Append(@, byte_width)],
      slot |-> fr.slot_count + n - 1]

-----------------------------------------------------------------------------
(* MidTierSpillSlotAllocator *)

\* A slot that reports the start of its range as its last use.
last_use_at_start(slot) == slot.range.start

last_use(slot) == slot.range.end

\* The vregs AllocateSpillSlots collects: spilled, with a pending spill operand.
SpilledToAllocate(s) == {v \in s.spilled : HasPendingSpillOperand(s, v)}

\* allocated_slots_.top(): a slot with the smallest last use.
Tops(allocated_slots) ==
  {t \in allocated_slots : \A u \in allocated_slots : last_use(t) <= last_use(u)}

\* AdvanceTo(instr_index): the possible outcomes; slots with equal last use
\* leave the priority queue in an order the queue does not specify.
RECURSIVE AdvanceToOutcomes(_, _)
AdvanceToOutcomes(sa, instr_index) ==
  IF sa.allocated_slots # {} /\
     (\E t \in Tops(sa.allocated_slots) : instr_index > last_use(t))
  THEN UNION { AdvanceToOutcomes(
                 [sa EXCEPT !.free_slots = <<t>> \o @,
                            !.allocated_slots = @ \ {t}], instr_index)
               : t \in Tops(sa.allocated_slots) }
  ELSE {[sa EXCEPT !.position = instr_index]}

AdvanceTo(sa, instr_index) == AdvanceToOutcomes(sa, instr_index)

\* Takes the first free slot whatever its width.
GetFirstFreeSlot(free_slots, byte_width) ==
  IF free_slots = <<>> THEN 0 ELSE 1

\* GetFreeSpillSlot(byte_width): position in free_slots_ of the first slot of
\* that width, 0 when there is none.
GetFreeSpillSlot(free_slots, byte_width) ==
  LET matching == {n \in 1 .. Len(free_slots) : free_slots[n].byte_width = byte_width}
  IN IF matching = {} THEN 0 ELSE SetMin(matching)

RemoveAt(seq, n) == SubSeq(seq, 1, n - 1) \o SubSeq(seq, n + 1, Len(seq))

\* Allocate(virtual_register), given the outcome sa of AdvanceTo.
AllocateAfterAdvance(s, sa, v) ==
  LET rep == RepresentationFor(v)
      byte_width == ByteWidthForStackSlot(rep)
      live_range == s.vdata[v].live_range
      n == GetFreeSpillSlot(sa.free_slots, byte_width)
      fresh == FrameAllocateSpillSlot(s.frame, byte_width)
      slot0 == IF n # 0 THEN sa.free_slots[n]
               ELSE [stack_slot |-> fresh.slot, byte_width |-> byte_width,
                     range |-> EmptyRange]
      slot == [slot0 EXCEPT !.range = AddRange(@, live_range)]
      s1 == IF n # 0 THEN s ELSE [s EXCEPT !.frame = fresh.frame]
      s2 == AllocatePendingSpillOperand(s1, v,
              AllocatedOperand("STACK_SLOT", rep, slot.stack_slot))
  IN [s2 EXCEPT !.slot_alloc =
        [sa EXCEPT !.free_slots = IF n # 0 THEN RemoveAt(@, n) ELSE @,
                   !.allocated_slots = @ \cup {slot}]]

\* The next vreg in the order std::sort leaves: any of those with the
\* smallest live range start.
NextToAllocate(s) ==
  {v \in SpilledToAllocate(s) :
     \A w \in SpilledToAllocate(s) :
       s.vdata[v].live_range.start <= s.vdata[w].live_range.start}

-----------------------------------------------------------------------------
(* MidTierReferenceMapPopulator *)

\* The instructions whose reference map RecordReferences adds the spill
\* operand of v to.
RecordedAt(s, v) ==
  IF ~HasAllocatedSpillOperand(s, v) THEN {}
  ELSE IF ~IsReference(v) THEN {}
  ELSE
    LET live_range == s.vdata[v].live_range IN
    {i \in {s.refmap_instrs[n] : n \in 1 .. Len(s.refmap_instrs)} :
       /\ ~(i > live_range.end \/ i < live_range.start)
       /\ IsLiveAt(s, v, i, BlockOfInstr(i))}

RecordReferences(s, v) ==
  [s EXCEPT !.refmaps = [i \in DOMAIN s.refmaps |->
     IF i \in RecordedAt(s, v) THEN s.refmaps[i] \cup {spill_operand(s, v)}
     ELSE s.refmaps[i]]]

RECURSIVE RecordAll(_, _)
RecordAll(s, vregs) ==
  IF vregs = {} THEN s
  ELSE LET v == SetMin(vregs) IN RecordAll(RecordReferences(s, v), vregs \ {v})

PopulateReferenceMaps(s) == RecordAll(s, s.spilled)

-----------------------------------------------------------------------------
(* The driver: AllocateRegisters(data) and its passes, one step at a time *)

State ==
  [ops |-> ops, vdata |-> vdata, dominated |-> dominated,
   refmap_instrs |-> refmap_instrs, spilled |-> spilled, has_state |-> has_state,
   regs |-> regs, v2r |-> v2r, in_use_start |-> in_use_start,
   in_use_end |-> in_use_end, allocated_bits |-> allocated_bits,
   assigned |-> assigned, frame |-> frame, slot_alloc |-> slot_alloc,
   refmaps |-> refmaps, failed |-> failed]

\* The next state of the allocator's data is t.
Becomes(t) ==
  /\ ops' = t.ops
  /\ vdata' = t.vdata
  /\ dominated' = t.dominated
  /\ refmap_instrs' = t.refmap_instrs
  /\ spilled' = t.spilled
  /\ has_state' = t.has_state
  /\ regs' = t.regs
  /\ v2r' = t.v2r
  /\ in_use_start' = t.in_use_start
  /\ in_use_end' = t.in_use_end
  /\ allocated_bits' = t.allocated_bits
  /\ assigned' = t.assigned
  /\ frame' = t.frame
  /\ slot_alloc' = t.slot_alloc
  /\ refmaps' = t.refmaps
  /\ failed' = t.failed
  /\ code' = code
  /\ UNCHANGED torque_vars

Pc(phase, block, instr, step, idx) ==
  [phase |-> phase, block |-> block, instr |-> instr, step |-> step, idx |-> idx]

\* The END gap moves of instruction i whose source is still unallocated.
UnallocatedGapSources(s, i) ==
  {k \in 0 .. (NumMoves(s, i, "END") - 1) : IsUnallocated(s.ops[GapLoc(i, "END", k, "src")])}

\* The first step of instruction i at or after (step, idx) that has work to
\* do: the loops of AllocateRegisters(block) skip what is not there.
RECURSIVE NextStep(_, _, _, _)
NextStep(s, i, step, idx) ==
  CASE step = "outputs" ->
         IF idx < OutputCount(i) THEN <<step, idx>> ELSE NextStep(s, i, "clobber", 0)
    [] step = "clobber" ->
         IF InstructionAt(i).clobbers \/ InstructionAt(i).clobbers_double
         THEN <<step, 0>> ELSE NextStep(s, i, "temps", 0)
    [] step = "temps" ->
         IF idx < TempCount(i) THEN <<step, idx>> ELSE NextStep(s, i, "inputs", 0)
    [] step = "inputs" ->
         IF idx >= InputCount(i) THEN NextStep(s, i, "inputs_at_start", 0)
         ELSE LET input == s.ops[InstrLoc(i, "in", idx)] IN
              IF IsUnallocated(input) /\ ~input.at_start THEN <<step, idx>>
              ELSE NextStep(s, i, "inputs", idx + 1)
    [] step = "inputs_at_start" ->
         IF idx >= InputCount(i) THEN NextStep(s, i, "gap_moves", 0)
         ELSE IF IsUnallocated(s.ops[InstrLoc(i, "in", idx)]) THEN <<step, idx>>
              ELSE NextStep(s, i, "inputs_at_start", idx + 1)
    [] step = "gap_moves" ->
         IF UnallocatedGapSources(s, i) # {}
         THEN <<step, SetMin(UnallocatedGapSources(s, i))>>
         ELSE <<"end_instruction", 0>>
    [] OTHER -> <<step, idx>>

\* A failed check is fatal: the driver stops.
Goto(t, phase, block, instr, step, idx) ==
  /\ Becomes(t)
  /\ pc' = IF t.failed # "" THEN Pc("aborted", -1, -1, "", 0)
           ELSE IF phase = "alloc"
           THEN LET n == NextStep(t, instr, step, idx)
                IN Pc(phase, block, instr, n[1], n[2])
           ELSE Pc(phase, block, instr, step, idx)

\* DefineOutputs(): blocks in reverse order
DoDefineOutputs ==
  /\ pc.phase = "define"
  /\ LET b == pc.block
         t == DefineOutputsBlock(InitializeBlockState(State, b), b)
     IN IF b > 0 THEN Goto(t, "define", b - 1, -1, "", 0)
        ELSE Goto(t, "start_block", NumBlocks - 1, -1, "", 0)

\* Starts the allocation of a block at its first instruction.
DoStartBlockAtFirst ==
  /\ pc.phase = "start_block"
  /\ Goto(StartBlock(State), "alloc", pc.block,
          InstructionBlockAt(pc.block).first, "reserve", 0)

\* AllocateRegisters(block): StartBlock on both allocators
DoStartBlock ==
  /\ pc.phase = "start_block"
  /\ Goto(StartBlock(State), "alloc", pc.block,
          InstructionBlockAt(pc.block).last, "reserve", 0)

DoReserveFixedRegisters ==
  /\ pc.phase = "alloc" /\ pc.step = "reserve"
  /\ Goto(ReserveFixedRegisters(State, pc.instr), "alloc", pc.block, pc.instr, "outputs", 0)

DoAllocateOutput ==
  /\ pc.phase = "alloc" /\ pc.step = "outputs"
  /\ Goto(AllocateOutputOf(State, pc.instr, pc.idx), "alloc", pc.block, pc.instr,
          "outputs", pc.idx + 1)

DoSpillOnClobber ==
  /\ pc.phase = "alloc" /\ pc.step = "clobber"
  /\ Goto(SpillOnClobber(State, pc.instr), "alloc", pc.block, pc.instr, "temps", 0)

DoAllocateTemp ==
  /\ pc.phase = "alloc" /\ pc.step = "temps"
  /\ LET loc == InstrLoc(pc.instr, "tmp", pc.idx)
     IN Goto(AllocateTemp(State, AllocatorFor(ops[loc]), loc, pc.instr),
             "alloc", pc.block, pc.instr, "temps", pc.idx + 1)

DoAllocateInput ==
  /\ pc.phase = "alloc" /\ pc.step \in {"inputs", "inputs_at_start"}
  /\ LET loc == InstrLoc(pc.instr, "in", pc.idx)
         s == IF pc.step = "inputs_at_start" /\ ~ops[loc].at_start
              THEN Fail(State, "DCHECK(input->IsUsedAtStart())") ELSE State
     IN Goto(AllocateInput(s, AllocatorFor(ops[loc]), loc, pc.instr),
             "alloc", pc.block, pc.instr, pc.step, pc.idx + 1)

DoAllocateGapMoveInput ==
  /\ pc.phase = "alloc" /\ pc.step = "gap_moves"
  /\ LET loc == GapLoc(pc.instr, "END", pc.idx, "src")
     IN Goto(AllocateGapMoveInput(State, AllocatorFor(ops[loc]), loc, pc.instr),
             "alloc", pc.block, pc.instr, "gap_moves", 0)

DoEndInstruction ==
  /\ pc.phase = "alloc" /\ pc.step = "end_instruction"
  /\ IF pc.instr > InstructionBlockAt(pc.block).first
     THEN Goto(EndInstruction(State), "alloc", pc.block, pc.instr - 1, "reserve", 0)
     ELSE Goto(EndInstruction(State), "end_block", pc.block, -1, "", 0)

DoEndBlock ==
  /\ pc.phase = "end_block"
  /\ IF pc.block > 0
     THEN Goto(EndBlock(State), "start_block", pc.block - 1, -1, "", 0)
     ELSE Goto(EndBlock(State), "loops", -1, -1, "", 0)

\* The tail of AllocateRegisters(): loop fixup, then the frame gets the registers.
DoUpdateSpillRangesForLoops ==
  /\ pc.phase = "loops"
  /\ LET t == SetAllocatedRegisters(UpdateSpillRangesForLoops(State))
     IN Goto(t, IF SpilledToAllocate(t) = {} THEN "refmaps" ELSE "slots", -1, -1, "", 0)

\* AllocateSpillSlots: one Allocate per collected vreg, in sorted order
DoAllocateSpillSlot ==
  /\ pc.phase = "slots"
  /\ \E v \in NextToAllocate(State) :
       \E sa \in AdvanceTo(slot_alloc, vdata[v].live_range.start) :
         LET t == AllocateAfterAdvance(State, sa, v)
         IN Goto(t, IF SpilledToAllocate(t) = {} THEN "refmaps" ELSE "slots",
                 -1, -1, "", 0)

DoPopulateReferenceMaps ==
  /\ pc.phase = "refmaps"
  /\ Goto(PopulateReferenceMaps(State), "done", -1, -1, "", 0)

Next ==
  \/ DoDefineOutputs
  \/ DoStartBlock
  \/ DoReserveFixedRegisters
  \/ DoAllocateOutput
  \/ DoSpillOnClobber
  \/ DoAllocateTemp
  \/ DoAllocateInput
  \/ DoAllocateGapMoveInput
  \/ DoEndInstruction
  \/ DoEndBlock
  \/ DoUpdateSpillRangesForLoops
  \/ DoAllocateSpillSlot
  \/ DoPopulateReferenceMaps

\* The state after the constructors, for instruction sequence c.
InitFor(c) ==
  /\ code = c
  /\ ops = [l \in UNION {
              {InstrLoc(i - 1, "out", k - 1) : k \in 1 .. Len(c.instrs[i].out)} \cup
              {InstrLoc(i - 1, "in", k - 1) : k \in 1 .. Len(c.instrs[i].in)} \cup
              {InstrLoc(i - 1, "tmp", k - 1) : k \in 1 .. Len(c.instrs[i].tmp)}
              : i \in 1 .. Len(c.instrs)} |->
            c.instrs[l[2] + 1][l[3]][l[4] + 1]]
  /\ vdata = [v \in 0 .. (Len(c.rep) - 1) |-> DefaultVirtualRegisterData]
  /\ dominated = [b \in 0 .. (Len(c.blocks) - 1) |-> {}]
  /\ refmap_instrs = <<>>
  /\ spilled = {}
  /\ has_state = [k \in Kinds |-> FALSE]
  /\ regs = [k \in Kinds |-> NewRegisterState(k)]
  /\ v2r = [k \in Kinds |-> [v \in 0 .. (Len(c.rep) - 1) |-> Invalid]]
  /\ in_use_start = [k \in Kinds |-> {}]
  /\ in_use_end = [k \in Kinds |-> {}]
  /\ allocated_bits = [k \in Kinds |-> {}]
  /\ assigned = [k \in Kinds |-> {}]
  /\ frame = [slot_count |-> 0, widths |-> <<>>, allocated_registers |-> {},
              allocated_double_registers |-> {}]
  /\ slot_alloc = [allocated_slots |-> {}, free_slots |-> <<>>, position |-> 0]
  /\ refmaps = [i \in 0 .. (Len(c.instrs) - 1) |-> {}]
  /\ failed = ""
  /\ pc = Pc("define", Len(c.blocks) - 1, -1, "", 0)

-----------------------------------------------------------------------------
(* Instruction sequences                                                   *)
(*                                                                         *)
(* A program is built from a control flow graph and one descriptor per     *)
(* instruction.  The output of instruction i defines vreg i; an input      *)
(* names the vreg it reads by `ref`: the ref-th most recent definition     *)
(* before the instruction (ref = 0: the phi of the graph).  Temps get      *)
(* fresh vregs after the instructions' and the phis' vregs.                *)

NoOut == [policy |-> "NONE", rep |-> "kWord32", fixed |-> -1]
Out(policy, rep, fixed) == [policy |-> policy, rep |-> rep, fixed |-> fixed]
In(ref, policy, fixed, at_start) ==
  [ref |-> ref, policy |-> policy, fixed |-> fixed, at_start |-> at_start]
Tmp(policy, rep, fixed) == [policy |-> policy, rep |-> rep, fixed |-> fixed]
Desc(out, ins, tmps, clobbers, clobbers_double, has_reference_map) ==
  [out |-> out, in |-> ins, tmp |-> tmps, clobbers |-> clobbers,
   clobbers_double |-> clobbers_double, has_reference_map |-> has_reference_map]

Block(first, last, successors, predecessors, dominator, loop_header, loop_end, phis) ==
  [first |-> first, last |-> last, successors |-> successors,
   predecessors |-> predecessors, dominator |-> dominator,
   loop_header |-> loop_header, loop_end |-> loop_end, phis |-> phis]

\* The block (1-based position in blocks) of instruction i.
BlockPos(blocks, i) ==
  CHOOSE b \in 1 .. Len(blocks) : blocks[b].first <= i /\ i <= blocks[b].last

\* Block a (rpo number) dominates block b.
RECURSIVE Dominates(_, _, _)
Dominates(blocks, a, b) ==
  IF a = b THEN TRUE
  ELSE IF b < 0 \/ blocks[b + 1].dominator < 0 THEN FALSE
  ELSE Dominates(blocks, a, blocks[b + 1].dominator)

\* The instructions before i whose output dominates a use at i.
DefsBefore(blocks, descs, i) ==
  {j \in 0 .. (i - 1) :
     /\ descs[j + 1].out.policy # "NONE"
     /\ Dominates(blocks, BlockPos(blocks, j) - 1, BlockPos(blocks, i) - 1)}

KthLargest(S, k) == CHOOSE x \in S : Cardinality({y \in S : y > x}) = k - 1

PhiVregs(blocks) == UNION {{blocks[b].phis[n] : n \in 1 .. Len(blocks[b].phis)} : b \in 1 .. Len(blocks)}

\* The vreg input descriptor d of instruction i reads; -1 when there is none.
RefVreg(cfg, descs, i, d) ==
  IF d.ref = 0
  THEN IF \E v \in PhiVregs(cfg.blocks) :
            \E b \in 1 .. Len(cfg.blocks) :
              /\ \E n \in 1 .. Len(cfg.blocks[b].phis) : cfg.blocks[b].phis[n] = v
              /\ Dominates(cfg.blocks, b - 1, BlockPos(cfg.blocks, i) - 1)
       THEN CHOOSE v \in PhiVregs(cfg.blocks) :
            \E b \in 1 .. Len(cfg.blocks) :
              /\ \E n \in 1 .. Len(cfg.blocks[b].phis) : cfg.blocks[b].phis[n] = v
              /\ Dominates(cfg.blocks, b - 1, BlockPos(cfg.blocks, i) - 1)
       ELSE -1
  ELSE IF Cardinality(DefsBefore(cfg.blocks, descs, i)) >= d.ref
       THEN KthLargest(DefsBefore(cfg.blocks, descs, i), d.ref)
       ELSE -1

\* Representation of vreg v defined by an instruction or a phi.
DescRep(cfg, descs, v) ==
  IF v < Len(descs) THEN descs[v + 1].out.rep ELSE cfg.phi_rep

\* The temps with a vreg of their own, as <<instruction, temp index>>, in order.
FreshTemps(descs) ==
  {<<i, n>> \in (0 .. (Len(descs) - 1)) \X (1 .. 2) :
     n <= Len(descs[i + 1].tmp) /\ descs[i + 1].tmp[n].policy # "FIXED_REGISTER"}

TempBefore(a, b) == a[1] < b[1] \/ (a[1] = b[1] /\ a[2] < b[2])

TempVreg(cfg, descs, i, n) ==
  IF descs[i + 1].tmp[n].policy = "FIXED_REGISTER" THEN kInvalidVirtualRegister
  ELSE Len(descs) + cfg.num_phis
       + Cardinality({t \in FreshTemps(descs) : TempBefore(t, <<i, n>>)})

FixedPolicyFor(rep) ==
  IF IsFloatingPoint(rep) THEN "FIXED_FP_REGISTER" ELSE "FIXED_REGISTER"

\* The operand of a descriptor: a fixed register is given by its register
\* index and turned into the register code of the vreg's kind.
MkOperand(policy, fixed, at_start, v, rep) ==
  IF policy = "CONSTANT" THEN ConstantOperand(v)
  ELSE IF policy = "FIXED_REGISTER"
  THEN UnallocatedOperand(FixedPolicyFor(rep), AllocatableCodes(KindOfRep(rep))[fixed + 1],
                          at_start, v)
  ELSE UnallocatedOperand(policy, fixed, at_start, v)

MkInstr(cfg, descs, i) ==
  LET d == descs[i + 1] IN
  [out |-> IF d.out.policy = "NONE" THEN <<>>
           ELSE <<MkOperand(d.out.policy, d.out.fixed, FALSE, i, d.out.rep)>>,
   in |-> [n \in 1 .. Len(d.in) |->
             LET v == RefVreg(cfg, descs, i, d.in[n])
             IN MkOperand(d.in[n].policy, d.in[n].fixed, d.in[n].at_start, v,
                          DescRep(cfg, descs, v))],
   tmp |-> [n \in 1 .. Len(d.tmp) |->
             MkOperand(d.tmp[n].policy, d.tmp[n].fixed, FALSE,
                       TempVreg(cfg, descs, i, n), d.tmp[n].rep)],
   clobbers |-> d.clobbers, clobbers_double |-> d.clobbers_double,
   has_reference_map |-> d.has_reference_map]

RECURSIVE TempReps(_, _)
TempReps(descs, temps) ==
  IF temps = {} THEN <<>>
  ELSE LET t == CHOOSE x \in temps : \A y \in temps : x = y \/ TempBefore(x, y)
       IN <<descs[t[1] + 1].tmp[t[2]].rep>> \o TempReps(descs, temps \ {t})

Build(cfg, descs) ==
  [blocks |-> cfg.blocks,
   instrs |-> [i \in 1 .. Len(descs) |-> MkInstr(cfg, descs, i - 1)],
   rep |-> [v \in 1 .. Len(descs) |-> descs[v].out.rep]
           \o [n \in 1 .. cfg.num_phis |-> cfg.phi_rep]
           \o TempReps(descs, FreshTemps(descs))]

\* A program the instruction selector can produce: every input reads a vreg
\* whose definition dominates it, an output with the same-as-input policy has
\* the register kind of input 0, the last instruction of the sequence (a
\* return or a jump) defines no vreg that needs a location, and a block ends
\* with a defining instruction only if it is the sole predecessor of each of
\* its successors.
ValidDescs(cfg, descs) ==
  /\ Len(descs) = cfg.blocks[Len(cfg.blocks)].last + 1
  /\ descs[Len(descs)].out.policy \in {"NONE", "CONSTANT"}
  /\ \A b \in 1 .. Len(cfg.blocks) :
       descs[cfg.blocks[b].last + 1].out.policy \notin {"NONE", "CONSTANT"} =>
         \A n \in 1 .. Len(cfg.blocks[b].successors) :
           Len(cfg.blocks[cfg.blocks[b].successors[n] + 1].predecessors) = 1
  /\ \A i \in 0 .. (Len(descs) - 1) :
       LET d == descs[i + 1] IN
       /\ \A n \in 1 .. Len(d.in) :
            LET v == RefVreg(cfg, descs, i, d.in[n]) IN
            v # -1
       /\ d.out.policy = "SAME_AS_FIRST_INPUT" =>
            /\ Len(d.in) >= 1
            /\ RefVreg(cfg, descs, i, d.in[1]) # -1
            /\ KindOfRep(DescRep(cfg, descs, RefVreg(cfg, descs, i, d.in[1])))
                 = KindOfRep(d.out.rep)

\* All sequences over S of length n.
RECURSIVE SeqsOfLen(_, _)
SeqsOfLen(S, n) ==
  IF n = 0 THEN {<<>>}
  ELSE {<<x>> \o r : x \in S, r \in SeqsOfLen(S, n - 1)}

\* A single block of n instructions.
StraightLine(n) ==
  [blocks |-> <<Block(0, n - 1, <<>>, <<>>, -1, FALSE, -1, <<>>)>>,
   num_phis |-> 0, phi_rep |-> "kWord32"]

\* B0 branches to B1 and B2, which join in B3; B3 has a phi (vreg 5).
Diamond ==
  [blocks |-> << Block(0, 1, <<1, 2>>, <<>>, -1, FALSE, -1, <<>>),
                 Block(2, 2, <<3>>, <<0>>, 0, FALSE, -1, <<>>),
                 Block(3, 3, <<3>>, <<0>>, 0, FALSE, -1, <<>>),
                 Block(4, 4, <<>>, <<1, 2>>, 0, FALSE, -1, <<5>>) >>,
   num_phis |-> 1, phi_rep |-> "kTagged"]

\* B0 enters the loop B1, B2 (header B1, with a phi, vreg 5); B2 jumps back
\* to B1 or leaves to B3.
Loop ==
  [blocks |-> << Block(0, 0, <<1>>, <<>>, -1, FALSE, -1, <<>>),
                 Block(1, 2, <<2>>, <<0, 2>>, 0, TRUE, 3, <<5>>),
                 Block(3, 3, <<1, 3>>, <<1>>, 1, FALSE, -1, <<>>),
                 Block(4, 4, <<>>, <<2>>, 2, FALSE, -1, <<>>) >>,
   num_phis |-> 1, phi_rep |-> "kTagged"]

\* B0 falls into the single-block loop B1 (header, with a phi, vreg 5), which
\* jumps back to itself or leaves to B2.
LoopAfterEntry ==
  [blocks |-> << Block(0, 1, <<1>>, <<>>, -1, FALSE, -1, <<>>),
                 Block(2, 3, <<1, 2>>, <<0, 1>>, 0, TRUE, 2, <<5>>),
                 Block(4, 4, <<>>, <<1>>, 1, FALSE, -1, <<>>) >>,
   num_phis |-> 1, phi_rep |-> "kTagged"]

\* B0 falls into the outer loop B1, B2, B3 (header B1); B2 is an inner
\* single-block loop (header B2); B3 jumps back to B1 or leaves to B4.
NestedLoops ==
  [blocks |-> << Block(0, 1, <<1>>, <<>>, -1, FALSE, -1, <<>>),
                 Block(2, 3, <<2>>, <<0, 3>>, 0, TRUE, 4, <<>>),
                 Block(4, 4, <<2, 3>>, <<1, 2>>, 1, TRUE, 3, <<>>),
                 Block(5, 5, <<1, 4>>, <<2>>, 2, FALSE, -1, <<>>),
                 Block(6, 6, <<>>, <<3>>, 3, FALSE, -1, <<>>) >>,
   num_phis |-> 0, phi_rep |-> "kTagged"]

ProgramsOver(cfg, menu) ==
  {Build(cfg, descs) :
     descs \in {ds \in SeqsOfLen(menu, cfg.blocks[Len(cfg.blocks)].last + 1) :
                  ValidDescs(cfg, ds)}}

-----------------------------------------------------------------------------
(* The families of instruction sequences *)

\* Longest straight-line sequence.
MaxLen == 4

\* Register pressure, slot uses, constants and a call that clobbers.
MenuSpill ==
  { Desc(Out("MUST_HAVE_REGISTER", "kTagged", -1), <<>>, <<>>, FALSE, FALSE, FALSE),
    Desc(Out("CONSTANT", "kWord32", -1), <<>>, <<>>, FALSE, FALSE, FALSE),
    Desc(NoOut, <<In(1, "MUST_HAVE_REGISTER", -1, TRUE),
                  In(2, "MUST_HAVE_REGISTER", -1, TRUE)>>, <<>>, FALSE, FALSE, TRUE),
    Desc(NoOut, <<In(1, "MUST_HAVE_SLOT", -1, FALSE),
                  In(2, "REGISTER_OR_SLOT_OR_CONSTANT", -1, TRUE)>>, <<>>,
         FALSE, FALSE, FALSE),
    Desc(Out("MUST_HAVE_REGISTER", "kTagged", -1),
         <<In(1, "REGISTER_OR_SLOT", -1, FALSE)>>, <<>>, TRUE, FALSE, TRUE),
    Desc(NoOut, <<In(3, "MUST_HAVE_REGISTER", -1, FALSE)>>, <<>>, FALSE, FALSE, FALSE) }

\* Fixed registers, fixed slots, temps, same-as-input outputs and doubles.
MenuFixed ==
  { Desc(Out("MUST_HAVE_REGISTER", "kTagged", -1), <<>>, <<>>, FALSE, FALSE, FALSE),
    Desc(Out("FIXED_REGISTER", "kFloat64", 1), <<>>, <<Tmp("FIXED_REGISTER", "kWord32", 1)>>,
         FALSE, FALSE, FALSE),
    Desc(Out("MUST_HAVE_REGISTER", "kTagged", -1),
         <<In(1, "FIXED_REGISTER", 0, TRUE)>>, <<>>, FALSE, FALSE, FALSE),
    Desc(NoOut, <<In(1, "FIXED_REGISTER", 0, TRUE),
                  In(1, "MUST_HAVE_REGISTER", -1, TRUE)>>, <<>>, FALSE, TRUE, FALSE),
    Desc(NoOut, <<In(2, "FIXED_REGISTER", 0, FALSE),
                  In(1, "REGISTER_OR_SLOT", -1, TRUE)>>,
         <<Tmp("MUST_HAVE_REGISTER", "kWord32", -1)>>, FALSE, FALSE, FALSE),
    Desc(Out("SAME_AS_FIRST_INPUT", "kTagged", -1),
         <<In(2, "MUST_HAVE_REGISTER", -1, FALSE)>>, <<>>, FALSE, FALSE, FALSE),
    Desc(Out("SAME_AS_FIRST_INPUT", "kTagged", -1),
         <<In(1, "REGISTER_OR_SLOT", -1, FALSE)>>,
         <<Tmp("FIXED_REGISTER", "kWord32", 0), Tmp("FIXED_REGISTER", "kWord32", 1)>>,
         FALSE, FALSE, FALSE),
    Desc(Out("FIXED_SLOT", "kTagged", -1),
         <<In(1, "FIXED_SLOT", -2, FALSE)>>, <<>>, FALSE, FALSE, TRUE) }

\* Definitions and uses across blocks, uses of the phi, reference maps.
MenuBlocks ==
  { Desc(Out("MUST_HAVE_REGISTER", "kTagged", -1), <<>>, <<>>, FALSE, FALSE, FALSE),
    Desc(NoOut, <<In(1, "MUST_HAVE_SLOT", -1, FALSE)>>, <<>>, FALSE, FALSE, TRUE),
    Desc(NoOut, <<In(0, "MUST_HAVE_SLOT", -1, FALSE)>>, <<>>, FALSE, FALSE, TRUE),
    Desc(NoOut, <<>>, <<>>, FALSE, FALSE, TRUE),
    Desc(NoOut, <<In(2, "MUST_HAVE_REGISTER", -1, TRUE)>>, <<>>, FALSE, FALSE, FALSE) }

\* Definitions before and inside nested loops, spilled by their uses.
MenuNested ==
  { Desc(Out("MUST_HAVE_REGISTER", "kTagged", -1), <<>>, <<>>, FALSE, FALSE, FALSE),
    Desc(NoOut, <<In(1, "MUST_HAVE_SLOT", -1, FALSE)>>, <<>>, FALSE, FALSE, TRUE),
    Desc(NoOut, <<In(2, "MUST_HAVE_REGISTER", -1, TRUE)>>, <<>>, FALSE, FALSE, FALSE),
    Desc(NoOut, <<>>, <<>>, FALSE, FALSE, TRUE) }

BlockPrograms ==
  ProgramsOver(Diamond, MenuBlocks) \cup ProgramsOver(Loop, MenuBlocks)
    \cup ProgramsOver(LoopAfterEntry, MenuBlocks)
    \cup ProgramsOver(NestedLoops, MenuNested)

StraightLinePrograms ==
  UNION {ProgramsOver(StraightLine(n), MenuSpill) \cup ProgramsOver(StraightLine(n), MenuFixed)
         : n \in 1 .. MaxLen}

\* Length of the sequences with three vregs live at once.
PressureLen == 5

\* Three definitions and uses that need registers for them.
MenuPressure ==
  { Desc(Out("MUST_HAVE_REGISTER", "kTagged", -1), <<>>, <<>>, FALSE, FALSE, FALSE),
    Desc(Out("MUST_HAVE_REGISTER", "kFloat64", -1), <<>>, <<>>, FALSE, FALSE, FALSE),
    Desc(NoOut, <<In(1, "MUST_HAVE_REGISTER", -1, TRUE),
                  In(2, "MUST_HAVE_REGISTER", -1, TRUE)>>, <<>>, FALSE, FALSE, TRUE),
    Desc(NoOut, <<In(1, "REGISTER_OR_SLOT", -1, FALSE),
                  In(2, "MUST_HAVE_REGISTER", -1, TRUE)>>, <<>>, FALSE, FALSE, FALSE),
    Desc(NoOut, <<In(3, "MUST_HAVE_REGISTER", -1, FALSE)>>, <<>>, FALSE, FALSE, FALSE) }

PressurePrograms == ProgramsOver(StraightLine(PressureLen), MenuPressure)

Programs == StraightLinePrograms \cup BlockPrograms \cup PressurePrograms

\* No Torque code runs while the allocator does.
NoSlices ==
  /\ slices = <<>> /\ iter = <<>> /\ iter_seq = <<>>
  /\ iter_yield = <<>> /\ seq_yield = <<>> /\ lookup = <<>>

Init == \E c \in Programs : InitFor(c) /\ NoSlices

Spec == Init /\ [][Next]_vars

-----------------------------------------------------------------------------
(* torque_internal: Slice, SliceIterator, IteratorSequence *)

\* intptr is IntptrBits wide, two's complement.
IntptrBits == 5
MinIntptr == -(2 ^ (IntptrBits - 1))
MaxIntptr == 2 ^ (IntptrBits - 1) - 1
Intptrs == MinIntptr .. MaxIntptr

\* The value of an intptr computation: the result wraps around.
WrapIntptr(x) == ((x - MinIntptr) % (2 ^ IntptrBits)) + MinIntptr
IntptrAdd(a, b) == WrapIntptr(a + b)
IntptrMul(a, b) == WrapIntptr(a * b)

\* Convert<uintptr>(intptr): the same bits read as an unsigned number.
ConvertUintptr(x) == x % (2 ^ IntptrBits)

ElementTypes == {"uint8", "uint16", "int32"}

SizeOf(T) ==
  CASE T = "uint8" -> 1
    [] T = "uint16" -> 2
    [] T = "int32" -> 4

NewReference(T, object, offset) == [T |-> T, object |-> object, offset |-> offset]

\* What a macro with a label hands its caller: a value through return, or a
\* jump to the label.
Return(value) == [label |-> "return", value |-> value]
GotoLabel(label) == [label |-> label, value |-> <<>>]

\* Compares the index with the length as signed numbers.
TryAtIndexSigned(this, index) ==
  IF index < this.length
  THEN Return(NewReference(this.T, this.object,
                           IntptrAdd(this.offset, IntptrMul(index, SizeOf(this.T)))))
  ELSE GotoLabel("OutOfBounds")

TryAtIndex(this, index) ==
  IF ConvertUintptr(index) < ConvertUintptr(this.length)
  THEN Return(NewReference(this.T, this.object,
                           IntptrAdd(this.offset, IntptrMul(index, SizeOf(this.T)))))
  ELSE GotoLabel("OutOfBounds")

\* Slice::Iterator()
Iterator(this) ==
  [T |-> this.T, object |-> this.object, start |-> this.offset,
   end |-> IntptrAdd(this.offset, IntptrMul(this.length, SizeOf(this.T)))]

UnsafeNewSlice(T, object, offset, length) ==
  [T |-> T, object |-> object, offset |-> offset, length |-> length]

\* SliceIterator::Empty
Empty(this) == this.start = this.end

\* SliceIterator::NextReference: what the caller gets and the iterator after
\* the call.
NextReference(this) ==
  IF Empty(this)
  THEN [out |-> GotoLabel("NoMore"), this |-> this]
  ELSE [out |-> Return(NewReference(this.T, this.object, this.start)),
        this |-> [this EXCEPT !.start = IntptrAdd(@, SizeOf(this.T))]]

\* The element a reference points at; the heap holds a different element in
\* every cell.
Deref(ref) == [element_at |-> <<ref.object, ref.offset>>, T |-> ref.T]

\* SliceIterator::Next
SliceIteratorNext(this) ==
  LET r == NextReference(this) IN
  IF r.out.label = "return"
  THEN [out |-> Return(Deref(r.out.value)), this |-> r.this]
  ELSE r

\* IteratorSequence::Empty
IteratorSequenceEmpty(this) == Empty(this.first) /\ Empty(this.second)

\* IteratorSequence::Next
IteratorSequenceNext(this) ==
  LET a == SliceIteratorNext(this.first) IN
  IF a.out.label = "return"
  THEN [out |-> a.out, this |-> [this EXCEPT !.first = a.this]]
  ELSE LET b == SliceIteratorNext(this.second) IN
       [out |-> b.out, this |-> [this EXCEPT !.first = a.this, !.second = b.this]]

\* Largest offset and length of the slices the callers make.
MaxOffset == 2
MaxSliceLength == 2

\* The slices of elements of type T that lie inside the address space.
SlicesOf(T, object) ==
  {UnsafeNewSlice(T, object, offset, length) :
     offset \in 0 .. MaxOffset,
     length \in {n \in 0 .. MaxSliceLength : MaxOffset + n * SizeOf(T) <= MaxIntptr}}

\* The indices the callers look up: around both ends of the slice and at
\* both ends of intptr.
Indices == (-2 .. (MaxSliceLength + 1)) \cup {MinIntptr, MaxIntptr}

\* A caller holds two slices of one element type, an iterator over the first
\* and an IteratorSequence over the iterators of both.
SliceInit ==
  /\ \E T \in ElementTypes :
       \E a \in SlicesOf(T, "first"), b \in SlicesOf(T, "second") :
         /\ slices = <<a, b>>
         /\ iter = Iterator(a)
         /\ iter_seq = [first |-> Iterator(a), second |-> Iterator(b)]
  /\ iter_yield = <<>>
  /\ seq_yield = <<>>
  /\ lookup = <<>>
  /\ InitFor(CHOOSE c \in ProgramsOver(StraightLine(1), MenuSpill) : TRUE)

\* The caller has not been told NoMore yet.
MayCallNext(yield) ==
  IF yield = <<>> THEN TRUE ELSE yield[Len(yield)].label # "NoMore"

DoTryAtIndex ==
  /\ \E index \in Indices :
       lookup' = [index |-> index, result |-> TryAtIndex(slices[1], index)]
  /\ UNCHANGED <<slices, iter, iter_seq, iter_yield, seq_yield>>
  /\ UNCHANGED allocator_vars

DoNextReference ==
  /\ MayCallNext(iter_yield)
  /\ iter' = NextReference(iter).this
  /\ iter_yield' = Append(iter_yield, NextReference(iter).out)
  /\ UNCHANGED <<slices, iter_seq, seq_yield, lookup>>
  /\ UNCHANGED allocator_vars

DoNext ==
  /\ MayCallNext(seq_yield)
  /\ iter_seq' = IteratorSequenceNext(iter_seq).this
  /\ seq_yield' = Append(seq_yield, IteratorSequenceNext(iter_seq).out)
  /\ UNCHANGED <<slices, iter, iter_yield, lookup>>
  /\ UNCHANGED allocator_vars

SliceNext ==
  \/ DoTryAtIndex
  \/ DoNextReference
  \/ DoNext

SliceSpec == SliceInit /\ [][SliceNext]_vars

-----------------------------------------------------------------------------
(* Properties *)

Done == pc.phase = "done"

\* The vregs whose pending spill operands MidTierSpillSlotAllocator::Allocate
\* has resolved: spilled, with an allocated spill operand that is not the
\* fixed spill operand of the definition.
ResolvedByAllocate ==
  {v \in spilled : /\ HasAllocatedSpillOperand(State, v)
                   /\ vdata[v].spill_operand # ZoneLoc(v)}

SpillSlotOf(v) == ops[vdata[v].spill_operand].index

RangesShareIndex(r1, r2) == r1.start <= r2.end /\ r2.start <= r1.end

\* C1: two distinct vregs whose spill operands Allocate resolved never hold
\* the same stack slot when their closed spill live ranges share an
\* instruction index (a slot whose last use is the start of the next range is
\* not reused for it).
C1_NoSharedSlot ==
  \A v \in ResolvedByAllocate : \A w \in ResolvedByAllocate :
    (v # w /\ RangesShareIndex(vdata[v].live_range, vdata[w].live_range))
      => SpillSlotOf(v) # SpillSlotOf(w)

\* Allocation is over and two resolved vregs exist of which one's range ends
\* where the other's starts.
C1_Witness ==
  /\ Done
  /\ \E v \in ResolvedByAllocate : \E w \in ResolvedByAllocate :
       /\ v # w
       /\ vdata[v].live_range.end = vdata[w].live_range.start
       /\ SpillSlotOf(v) # SpillSlotOf(w)

IsRegisterOperand(op) == IsAllocated(op) /\ op.loc = "REGISTER"
IsStackSlotOperand(op) == IsAllocated(op) /\ op.loc = "STACK_SLOT"

\* The inputs of the sequence as <<instruction, input number>>, the operand
\* the instruction selector wrote for each, and the place it lives in.
Inputs == {<<i, n>> \in InstrIds \X (1 .. 2) : n <= InputCount(i)}
OriginalInput(x) == InstructionAt(x[1]).in[x[2]]
InputLoc(x) == InstrLoc(x[1], "in", x[2] - 1)

\* The operand is a stack slot and is the resolved spill slot of vreg v.
IsSpillSlotOf(op, v) ==
  /\ IsStackSlotOperand(op)
  /\ HasAllocatedSpillOperand(State, v)
  /\ op = spill_operand(State, v)

\* The statement of C2 as the spec has it: after allocation every input
\* operand is a register operand or the resolved spill slot of the vreg read.
C2_RegisterOrSpillSlot ==
  Done => \A x \in Inputs :
            \/ IsRegisterOperand(ops[InputLoc(x)])
            \/ IsSpillSlotOf(ops[InputLoc(x)], OriginalInput(x).vreg)

\* Input x of vreg v is the first input of an instruction whose output has the
\* same-as-input policy.
IsSameAsOutputInput(x) ==
  /\ x[2] = 1
  /\ OutputCount(x[1]) = 1
  /\ HasSameAsInputPolicy(InstructionAt(x[1]).out[1])

\* The register operand `after` written over `before` names a register of
\* v's kind that register_data_ holds for v when the operand is written (a
\* pending use that is committed, or AllocateUse), or the register a
\* fixed-register policy names.
C2_RegisterCommitted(v, before, after) ==
  LET k == KindOf(v)
      r == FromRegCode(k, after.index)
  IN /\ is_valid(r)
     /\ after.rep = RepresentationFor(v)
     /\ \/ regs[k][r].has_data /\ regs[k][r].virtual_register = v
        \/ regs'[k][r].has_data /\ regs'[k][r].virtual_register = v
        \/ IsUnallocated(before) /\ IsFixedRegisterPolicy(before)
             /\ before.fixed = after.index

C2_InputStep(x) ==
  LET v == OriginalInput(x).vreg
      before == ops[InputLoc(x)]
      after == ops'[InputLoc(x)]
  IN before # after =>
       \/ IsPending(after)
       \/ IsUnallocated(after) /\ IsFixedRegisterPolicy(after) /\ after.vreg = v
            /\ IsSameAsOutputInput(x)
       \/ IsRegisterOperand(after) /\ C2_RegisterCommitted(v, before, after)
       \/ IsStackSlotOperand(after) /\ vdata'[v].spill_operand # NoLoc
            /\ after = ops'[vdata'[v].spill_operand]
       \/ IsConstant(after) /\ vdata[v].is_constant /\ after.vreg = v
       \/ IsStackSlotOperand(after) /\ IsUnallocated(before) /\ HasFixedSlotPolicy(before)
            /\ after.index = before.fixed
       \/ IsStackSlotOperand(after) /\ IsSameAsOutputInput(x)
            /\ after = ops'[vdata'[InstructionAt(x[1]).out[1].vreg].spill_operand]

\* C2 (amended): every input operand is written as a register operand for a
\* register the register state holds for the vreg read (or the fixed register
\* its policy names), as the vreg's resolved spill slot, as the constant that
\* defines the vreg, as the fixed slot its policy names, or, for the first
\* input of an instruction with a same-as-input output, as the spill slot of
\* the output; and when allocation completes none is pending or unallocated.
C2_InputsResolved ==
  [][/\ \A x \in Inputs : C2_InputStep(x)
     /\ pc'.phase = "done" =>
          \A x \in Inputs : IsAllocated(ops'[InputLoc(x)]) \/ IsConstant(ops'[InputLoc(x)])]_vars

\* Allocation is over; one input is read from a register, another from the
\* resolved spill slot of its vreg and a third as a constant.
C2_Witness ==
  /\ Done
  /\ \E x \in Inputs : IsRegisterOperand(ops[InputLoc(x)])
  /\ \E x \in Inputs : IsSpillSlotOf(ops[InputLoc(x)], OriginalInput(x).vreg)
  /\ \E x \in Inputs : IsConstant(ops[InputLoc(x)])

\* The endpoints of the gap moves that have been inserted so far.
GapLocs == {loc \in DOMAIN ops : loc[1] = "G"}
GapMoves == {<<loc[2], loc[3], loc[4]>> : loc \in GapLocs}
GapSource(m) == ops[GapLoc(m[1], m[2], m[3], "src")]
GapDestination(m) == ops[GapLoc(m[1], m[2], m[3], "dst")]

\* C3: after DefineOutputs, AllocateRegisters and AllocateSpillSlots every gap
\* move, at START or END of any instruction, has a source and a destination
\* that are an allocated register, an allocated stack slot or a constant.
C3_GapMovesResolved ==
  Done => \A loc \in GapLocs : IsAllocated(ops[loc]) \/ IsConstant(ops[loc])

\* Allocation is over and has inserted a move from a spill slot into a
\* register, a move from a register into a spill slot and a move of a
\* constant, at START and at END positions.
C3_Witness ==
  /\ Done
  /\ \E m \in GapMoves : IsStackSlotOperand(GapSource(m)) /\ IsRegisterOperand(GapDestination(m))
  /\ \E m \in GapMoves : IsRegisterOperand(GapSource(m)) /\ IsStackSlotOperand(GapDestination(m))
  /\ \E m \in GapMoves : IsConstant(GapSource(m))
  /\ \E m \in GapMoves : m[2] = "START"
  /\ \E m \in GapMoves : m[2] = "END"

\* The calls of ReserveFixedRegister that ReserveFixedRegisters(i) makes, in
\* the order it makes them (outputs, temps, inputs), each as <<what, index>>.
ReserveSlots(i) ==
  [n \in 1 .. OutputCount(i) |-> <<"out", n - 1>>]
    \o [n \in 1 .. TempCount(i) |-> <<"tmp", n - 1>>]
    \o [n \in 1 .. InputCount(i) |-> <<"in", n - 1>>]

\* The operand whose policy is looked at: the input, for a same-as-input output.
ReserveOperand(s, i, c) ==
  LET operand == s.ops[InstrLoc(i, c[1], c[2])]
  IN IF c[1] = "out" /\ IsUnallocated(operand) /\ HasSameAsInputPolicy(operand)
     THEN s.ops[InstrLoc(i, "in", c[2])] ELSE operand

IsReserveCall(s, i, c) ==
  /\ IsUnallocated(s.ops[InstrLoc(i, c[1], c[2])])
  /\ IsFixedRegisterPolicy(ReserveOperand(s, i, c))

ReserveCalls(s, i) == SelectSeq(ReserveSlots(i), LAMBDA c : IsReserveCall(s, i, c))

ReservePosition(s, i, c) ==
  CASE c[1] = "out" -> "kEnd"
    [] c[1] = "tmp" -> "kAll"
    [] c[1] = "in" -> IF ReserveOperand(s, i, c).at_start THEN "kStart" ELSE "kAll"

ReserveCall(s, i, c) ==
  ReserveFixedRegister(s, AllocatorFor(ReserveOperand(s, i, c)), ReserveOperand(s, i, c),
                       i, ReservePosition(s, i, c))

\* The state in which the n-th call of ReserveFixedRegisters(i) is made, when
\* the first is made in state s; n = Len + 1 gives the state it returns.
RECURSIVE StateAtReserveCall(_, _, _)
StateAtReserveCall(s, i, n) ==
  IF n = 1 THEN s
  ELSE LET before == StateAtReserveCall(s, i, n - 1)
       IN ReserveCall(before, i, ReserveCalls(s, i)[n - 1])

AtReserve == pc.phase = "alloc" /\ pc.step = "reserve"

\* virtual_register_to_reg_[v] = r exactly when register r holds v.
MapsInverse(s, k) ==
  \A v \in VregIds : \A r \in RegIndices(k) :
    (s.v2r[k][v] = r) <=> (StateVirtualRegisterForRegister(s, k, r) = v)

\* C4: for each register kind the vreg->register map and the register->vreg
\* map are mutually inverse after every allocator primitive: no
\* CheckConsistency of AllocateUse, AllocatePendingUse, AllocateUseWithMove or
\* CommitRegister fails, the maps are inverse after every handler, after every
\* single ReserveFixedRegister call and after SpillRegister of any register.
C4_MapsInverse ==
  /\ failed # "CheckConsistency"
  /\ \A k \in Kinds :
       /\ MapsInverse(State, k)
       /\ has_state[k] => \A r \in RegIndices(k) : MapsInverse(SpillRegister(State, k, r), k)
       /\ AtReserve =>
            \A n \in 1 .. (Len(ReserveCalls(State, pc.instr)) + 1) :
              MapsInverse(StateAtReserveCall(State, pc.instr, n), k)

\* Both general registers hold a vreg in the middle of a block, and the
\* instruction about to reserve its fixed registers names an occupied one.
C4_Witness ==
  /\ AtReserve
  /\ \A r \in RegIndices("general") :
       StateVirtualRegisterForRegister(State, "general", r) # kInvalidVirtualRegister
  /\ \E n \in 1 .. Len(ReserveCalls(State, pc.instr)) :
       StateAtReserveCall(State, pc.instr, n + 1).v2r # StateAtReserveCall(State, pc.instr, n).v2r

\* EndBlock of some block has just returned: the driver stands before
\* StartBlock of the next block or, after the first block, before the loop fixup.
AfterEndBlock ==
  \/ pc.phase = "loops"
  \/ pc.phase = "start_block" /\ pc.block < NumBlocks - 1

NoBlockState(k) ==
  /\ allocated_bits[k] = {}
  /\ in_use_start[k] = {}
  /\ in_use_end[k] = {}
  /\ \A v \in VregIds : v2r[k][v] = Invalid
  /\ ~has_state[k]

\* C5: when EndBlock has run for a block, the allocated and the two in-use
\* bitmaps are zero, no vreg is mapped to a register and the register state
\* is discarded, for both kinds; no DCHECK of EndBlock fails, and StartBlock
\* of the next block passes its DCHECKs.
C5_EndBlockResets ==
  /\ failed \notin {"DCHECK(!HasRegisterState())",
                    "DCHECK_EQ(in_use_at_instr_start_bits_, 0)",
                    "DCHECK_EQ(in_use_at_instr_end_bits_, 0)",
                    "DCHECK_EQ(allocated_registers_bits_, 0)"}
  /\ AfterEndBlock => \A k \in Kinds : NoBlockState(k)
  /\ pc.phase = "start_block" => StartBlock(State).failed = ""

\* EndBlock has run for a block that assigned registers of both kinds, and
\* another block follows.
C5_Witness ==
  /\ pc.phase = "start_block" /\ pc.block < NumBlocks - 1
  /\ assigned["general"] # {}
  /\ \A k \in Kinds : NoBlockState(k)

\* Instruction i has a reference map and lies inside the spill live range of v.
InSpillRange(v, i) ==
  /\ vdata[v].has_spill_range
  /\ InstructionAt(i).has_reference_map
  /\ vdata[v].live_range.start <= i /\ i <= vdata[v].live_range.end

\* The block of i is in the live_blocks of v's spill range.
InLiveBlocks(v, i) == BlockOfInstr(i) \in dominated[vdata[v].live_blocks]

HasResolvedSlot(v) ==
  HasAllocatedSpillOperand(State, v) /\ IsStackSlotOperand(spill_operand(State, v))

\* C6: after PopulateReferenceMaps the reference map of every instruction i
\* holds exactly the resolved stack slots of the reference vregs whose spill
\* live range contains i and whose live_blocks contain the block of i:
\* nothing for a non-reference vreg, outside the range or outside live_blocks.
C6_ReferenceMaps ==
  Done => \A i \in InstrIds :
            refmaps[i] = {spill_operand(State, v) :
                            v \in {w \in VregIds : /\ IsReference(w)
                                                   /\ HasResolvedSlot(w)
                                                   /\ InSpillRange(w, i)
                                                   /\ InLiveBlocks(w, i)}}

\* The maps are populated; one instruction records the slot of a reference
\* vreg, and another instruction with a reference map lies inside a vreg's
\* live range but in a block outside its live_blocks.
C6_Witness ==
  /\ Done
  /\ \E i \in InstrIds : \E v \in VregIds :
       /\ IsReference(v) /\ HasResolvedSlot(v) /\ InSpillRange(v, i) /\ InLiveBlocks(v, i)
       /\ spill_operand(State, v) \in refmaps[i]
  /\ \E i \in InstrIds : \E v \in VregIds :
       /\ IsReference(v) /\ HasResolvedSlot(v) /\ InSpillRange(v, i) /\ ~InLiveBlocks(v, i)
       /\ spill_operand(State, v) \notin refmaps[i]

\* The operands as the instruction selector wrote them.
Original ==
  [ops |-> [l \in {InstrLoc(i, what, n - 1) :
                     i \in InstrIds, what \in {"out", "tmp", "in"}, n \in 1 .. 2} \cap DOMAIN ops
             |-> InstructionAt(l[2])[l[3]][l[4] + 1]]]

OperandSlots(i) == {ReserveSlots(i)[n] : n \in 1 .. Len(ReserveSlots(i))}

\* The operands of instruction i that name a fixed register, the register
\* and the use position ReserveFixedRegisters reserves it at.
FixedSlots(i) == {c \in OperandSlots(i) : IsReserveCall(Original, i, c)}
FixedKind(i, c) == AllocatorFor(ReserveOperand(Original, i, c))
FixedRegister(i, c) == FromRegCode(FixedKind(i, c), ReserveOperand(Original, i, c).fixed)
FixedPosition(i, c) == ReservePosition(Original, i, c)

\* The use position the allocation of a non-fixed operand is made at.
OperandPosition(i, c) ==
  CASE c[1] = "out" ->
         IF HasSameAsInputPolicy(Original.ops[InstrLoc(i, "out", c[2])]) THEN "kAll" ELSE "kEnd"
    [] c[1] = "tmp" -> "kAll"
    [] c[1] = "in" ->
         IF Original.ops[InstrLoc(i, "in", c[2])].at_start THEN "kStart" ELSE "kAll"

AtStart(pos) == pos \in {"kStart", "kAll"}
AtEnd(pos) == pos \in {"kEnd", "kAll"}
Overlap(p, q) == (AtStart(p) /\ AtStart(q)) \/ (AtEnd(p) /\ AtEnd(q))

\* Operand c of instruction i does not name a fixed register and has been
\* given the register that fixed operand f names, at an overlapping position.
GivenRegisterOf(i, c, f) ==
  /\ c \notin FixedSlots(i)
  /\ IsUnallocated(Original.ops[InstrLoc(i, c[1], c[2])])
  /\ IsRegisterOperand(ops[InstrLoc(i, c[1], c[2])])
  /\ KindOf(Original.ops[InstrLoc(i, c[1], c[2])].vreg) = FixedKind(i, f)
  /\ ops[InstrLoc(i, c[1], c[2])].index = ReserveOperand(Original, i, f).fixed
  /\ Overlap(OperandPosition(i, c), FixedPosition(i, f))

AfterReserve == pc.phase = "alloc" /\ pc.step # "reserve"

\* Each fixed register of the instruction being allocated is marked in use
\* at its use position, from ReserveFixedRegisters until EndInstruction.
FixedRegistersMarked ==
  AfterReserve =>
    \A f \in FixedSlots(pc.instr) :
      /\ AtStart(FixedPosition(pc.instr, f)) =>
           FixedRegister(pc.instr, f) \in in_use_start[FixedKind(pc.instr, f)]
      /\ AtEnd(FixedPosition(pc.instr, f)) =>
           FixedRegister(pc.instr, f) \in in_use_end[FixedKind(pc.instr, f)]

\* The statement of C7 as the spec has it: the fixed registers are marked and
\* no other operand of the instruction is given a fixed register of the
\* instruction at an overlapping use position.
C7_NoOtherOperand ==
  /\ FixedRegistersMarked
  /\ \A i \in InstrIds : \A f \in FixedSlots(i) : \A c \in OperandSlots(i) :
       ~GivenRegisterOf(i, c, f)

\* C7 (amended): after ReserveFixedRegisters each fixed register of an
\* output, temp or input is marked in use at its use position until
\* EndInstruction, and no operand of the instruction for a different virtual
\* register is given that register at an overlapping use position; an
\* operand for the same virtual register may be given it.
C7_NoOtherVreg ==
  /\ FixedRegistersMarked
  /\ \A i \in InstrIds : \A f \in FixedSlots(i) : \A c \in OperandSlots(i) :
       GivenRegisterOf(i, c, f) =>
         Original.ops[InstrLoc(i, c[1], c[2])].vreg = ReserveOperand(Original, i, f).vreg

\* An instruction with a fixed input and a temp that chose its register is
\* about to end: the fixed register is marked and the temp sits elsewhere.
C7_Witness ==
  /\ pc.phase = "alloc" /\ pc.step = "end_instruction"
  /\ \E f \in FixedSlots(pc.instr) : \E c \in OperandSlots(pc.instr) :
       /\ f[1] = "in" /\ c[1] = "tmp" /\ c \notin FixedSlots(pc.instr)
       /\ FixedRegister(pc.instr, f) \in in_use_start[FixedKind(pc.instr, f)]
       /\ IsRegisterOperand(ops[InstrLoc(pc.instr, "tmp", c[2])])
       /\ ops[InstrLoc(pc.instr, "tmp", c[2])].index # ReserveOperand(Original, pc.instr, f).fixed

\* What the n-th ReserveFixedRegister call of the instruction about to
\* reserve finds and leaves: the register, its occupant, whether the occupant
\* is defined after the instruction at the call's use position, and whether
\* the occupant is still in the register when the call returns.
ReserveCallAt(n) ==
  LET i == pc.instr
      c == ReserveCalls(State, i)[n]
      before == StateAtReserveCall(State, i, n)
      after == StateAtReserveCall(State, i, n + 1)
      operand == ReserveOperand(State, i, c)
      k == AllocatorFor(operand)
      r == FromRegCode(k, operand.fixed)
      occupant == StateVirtualRegisterForRegister(before, k, r)
  IN [vreg |-> operand.vreg, reg |-> r, occupant |-> occupant,
      pos |-> ReservePosition(State, i, c),
      occupant_defined_after |->
        DefinedAfter(before, occupant, i, ReservePosition(State, i, c)),
      kept |-> occupant # kInvalidVirtualRegister /\ after.v2r[k][occupant] = r]

HoldsDifferentVreg(call) ==
  call.occupant # kInvalidVirtualRegister /\ call.occupant # call.vreg

\* C8: when ReserveFixedRegister is called for a fixed register that holds a
\* different vreg, the occupant is spilled, unless the occupant is defined
\* later than the current instruction at this use position, and then no
\* spill is done.
C8_SpillsUnlessDefinedLater ==
  AtReserve =>
    \A n \in 1 .. Len(ReserveCalls(State, pc.instr)) :
      HoldsDifferentVreg(ReserveCallAt(n)) =>
        (ReserveCallAt(n).kept <=> ReserveCallAt(n).occupant_defined_after)

WithSpillRange == {v \in VregIds : vdata[v].has_spill_range}

\* The live range of phi v includes the first instruction of the phi's block
\* and the last instruction of every predecessor of that block.
PhiRangeIncluded(v) ==
  LET phi_block == InstructionBlockAt(BlockOfInstr(vdata[v].output_instr_index))
  IN /\ Contains(vdata[v].live_range, phi_block.first)
     /\ \A n \in 1 .. Len(phi_block.predecessors) :
          Contains(vdata[v].live_range,
                   InstructionBlockAt(phi_block.predecessors[n]).last)

BlocksDominatedBy(d) == {b \in BlockIds : Dominates(code.blocks, d, b)}

\* C10: for a non-phi vreg the live_blocks of the spill range made by
\* EnsureSpillRange are the blocks dominated by the block of the defining
\* instruction (output_instr_index), also when that instruction is the last
\* of its block.
C10_LiveBlocksOfDefiningBlock ==
  \A v \in WithSpillRange :
    ~vdata[v].is_phi =>
      dominated[vdata[v].live_blocks] = BlocksDominatedBy(BlockOfInstr(vdata[v].output_instr_index))

AfterDefineOutputs == pc.phase \notin {"define", "aborted"}

\* C11: after the DefineOutputs pass over all blocks in reverse order,
\* dominated_blocks(b) is exactly the set of blocks that b dominates, b
\* included, for every block b.
C11_DominatedBlocks ==
  /\ failed # "DCHECK_EQ(block, instruction_blocks().front())"
  /\ AfterDefineOutputs => \A b \in BlockIds : dominated[b] = BlocksDominatedBy(b)

\* The pass is over for a sequence where a block dominates a block whose
\* immediate dominator is another block.
C11_Witness ==
  /\ AfterDefineOutputs
  /\ \E a \in BlockIds : \E b \in BlockIds :
       /\ a # b /\ InstructionBlockAt(b).dominator # a
       /\ b \in dominated[a]

\* How far the spill operand of v has come: 0 absent, 1 pending, 2 resolved
\* (an AllocatedOperand or a ConstantOperand).
SpillOperandRank(v) ==
  IF vdata[v].spill_operand = NoLoc THEN 0
  ELSE IF IsPending(ops[vdata[v].spill_operand]) THEN 1
  ELSE IF IsAllocated(ops[vdata[v].spill_operand]) \/ IsConstant(ops[vdata[v].spill_operand])
  THEN 2
  ELSE -1

\* DefineOutputs has visited the block of instruction i.
DefinedAlready(i) == pc.phase # "define" \/ BlockOfInstr(i) > pc.block

\* The output of every instruction defined so far: a constant's spill operand
\* is its ConstantOperand, a fixed-slot output's is its fixed stack slot.
BornResolved ==
  \A i \in InstrIds :
    (OutputCount(i) = 1 /\ DefinedAlready(i)) =>
      LET o == InstructionAt(i).out[1] IN
      /\ IsConstant(o) =>
           /\ vdata[o.vreg].is_constant
           /\ vdata[o.vreg].spill_operand = InstrLoc(i, "out", 0)
           /\ ops[InstrLoc(i, "out", 0)] = o
      /\ (IsUnallocated(o) /\ HasFixedSlotPolicy(o)) =>
           /\ SpillOperandRank(o.vreg) = 2
           /\ ops[vdata[o.vreg].spill_operand] =
                AllocatedOperand("STACK_SLOT", RepresentationFor(o.vreg), o.fixed)

\* C12: over every allocator operation the spill operand of a vreg only moves
\* absent -> pending -> resolved and never back; a constant vreg's spill
\* operand is its ConstantOperand from definition on and a fixed-slot
\* output's is its fixed stack slot from definition on.
C12_SpillOperandMonotone ==
  [][/\ \A v \in VregIds :
          /\ SpillOperandRank(v)' >= SpillOperandRank(v)
          /\ SpillOperandRank(v)' # -1
     /\ BornResolved']_vars

\* Allocation is over: one vreg went through pending to a resolved slot and
\* a constant vreg, read by an instruction, kept its ConstantOperand.
C12_Witness ==
  /\ Done
  /\ ResolvedByAllocate # {}
  /\ \E x \in Inputs : vdata[OriginalInput(x).vreg].is_constant

\* The operands of store o reached from loc along next, at most n of them.
RECURSIVE ChainIn(_, _, _)
ChainIn(o, loc, n) ==
  IF loc = NoLoc \/ n = 0 \/ loc \notin DOMAIN o THEN <<>>
  ELSE <<loc>> \o ChainIn(o, o[loc].next, n - 1)

PendingChain(loc, n) == ChainIn(ops, loc, n)

\* The chain rooted at the spill operand of v, empty unless it is pending.
SpillChain(v) ==
  IF SpillOperandRank(v) = 1
  THEN PendingChain(vdata[v].spill_operand, Cardinality(DOMAIN ops) + 1)
  ELSE <<>>

\* The chain of pending uses of register r.
PendingUseChain(k, r) ==
  IF has_state[k] /\ regs[k][r].has_data
  THEN PendingChain(regs[k][r].pending_uses, Cardinality(DOMAIN ops) + 1)
  ELSE <<>>

Elements(seq) == {seq[n] : n \in 1 .. Len(seq)}

\* A chain that ends: no element twice, every element pending, null at the end.
IsAcyclicChain(seq) ==
  /\ Cardinality(Elements(seq)) = Len(seq)
  /\ \A n \in 1 .. Len(seq) :
       /\ IsPending(ops[seq[n]])
       /\ ops[seq[n]].next = IF n < Len(seq) THEN seq[n + 1] ELSE NoLoc

\* The instruction operand at loc was spilled for v: it reads or writes v, or
\* it is the first input of an instruction whose same-as-input output is v.
SpilledFor(loc, v) ==
  loc[1] = "I" =>
    \/ Original.ops[loc].vreg = v
    \/ /\ loc[3] = "in" /\ IsSameAsOutputInput(<<loc[2], loc[4] + 1>>)
       /\ InstructionAt(loc[2]).out[1].vreg = v

\* The spill chains are acyclic, hold operands of their own vreg only, and
\* every pending operand of the sequence is in the spill chain of exactly one
\* vreg unless it is a pending use of a register.
ChainsWellFormed ==
  /\ \A v \in VregIds :
       /\ IsAcyclicChain(SpillChain(v))
       /\ \A loc \in Elements(SpillChain(v)) : SpilledFor(loc, v)
       /\ \A w \in VregIds : v # w => Elements(SpillChain(v)) \cap Elements(SpillChain(w)) = {}
  /\ \A loc \in DOMAIN ops :
       IsPending(ops[loc]) =>
         \/ \E v \in VregIds : loc \in Elements(SpillChain(v))
         \/ \E k \in Kinds : \E r \in RegIndices(k) : loc \in Elements(PendingUseChain(k, r))

\* C13: the pending spill operands of a vreg form an acyclic singly linked
\* chain rooted at spill_operand that holds every operand and gap-move
\* endpoint spilled for the vreg so far, and AllocatePendingSpillOperand
\* overwrites every element with the same AllocatedOperand, after which
\* HasAllocatedSpillOperand holds.
C13_PendingChain ==
  [][/\ ChainsWellFormed'
     /\ \A v \in VregIds :
          (SpillOperandRank(v) = 1 /\ SpillOperandRank(v)' # 1) =>
            /\ IsAllocated(ops'[vdata'[v].spill_operand])
            /\ \A loc \in Elements(SpillChain(v)) :
                 ops'[loc] = ops'[vdata'[v].spill_operand]]_vars

\* A vreg's chain holds an instruction operand and a gap-move endpoint, and
\* is about to be resolved by the slot allocator.
C13_Witness ==
  /\ pc.phase = "slots"
  /\ \E v \in VregIds :
       /\ Len(SpillChain(v)) >= 3
       /\ \E loc \in Elements(SpillChain(v)) : loc[1] = "I"
       /\ \E loc \in Elements(SpillChain(v)) : loc[1] = "G"

\* The step wrote the operand at loc.
Written(loc) == loc \notin DOMAIN ops \/ ops[loc] # ops'[loc]

\* The step spilled v: it put an operand or a gap-move endpoint on the pending
\* chain of v, or wrote the resolved spill operand of v into one.
SpilledInStep(v) ==
  \E loc \in DOMAIN ops' :
    \/ loc \in Elements(SpillChain(v)') \ Elements(SpillChain(v))
    \/ /\ Written(loc) /\ SpillOperandRank(v)' = 2
       /\ ops'[loc] = ops'[vdata'[v].spill_operand]

\* The step replaced an input that reads v by the spill operand of v.
InputSpilledInStep(v) ==
  \E x \in Inputs :
    /\ OriginalInput(x).vreg = v
    /\ \/ InputLoc(x) \in Elements(SpillChain(v)') \ Elements(SpillChain(v))
       \/ /\ Written(InputLoc(x)) /\ SpillOperandRank(v)' = 2
          /\ ops'[InputLoc(x)] = ops'[vdata'[v].spill_operand]

\* C14: a vreg has a spill range, and is in spilled_virtual_registers, exactly
\* when SpillOperand, EmitGapMoveToInputFromSpillSlot or EmitGapMoveToSpillSlot
\* was applied to it; a constant vreg never acquires a spill range and is
\* never added to the spilled set.
C14_SpillRangeIffSpilled ==
  [][\A v \in VregIds :
       /\ vdata'[v].has_spill_range <=> v \in spilled'
       /\ vdata[v].has_spill_range => vdata'[v].has_spill_range
       /\ vdata'[v].is_constant => ~vdata'[v].has_spill_range
       /\ SpillOperandRank(v)' = 0 => ~vdata'[v].has_spill_range
       /\ (~vdata[v].has_spill_range /\ vdata'[v].has_spill_range) => SpilledInStep(v)
       /\ ~vdata'[v].is_constant =>
            /\ SpillOperandRank(v)' = 1 => vdata'[v].has_spill_range
            /\ InputSpilledInStep(v) => vdata'[v].has_spill_range]_vars

\* Allocation is over with a spilled vreg, a vreg that was never spilled and
\* a constant whose use was replaced by its ConstantOperand.
C14_Witness ==
  /\ Done
  /\ \E v \in spilled : vdata[v].has_spill_range /\ SpillOperandRank(v) = 2
  /\ \E v \in VregIds \ spilled : ~vdata[v].is_constant /\ v < NumInstr
  /\ \E x \in Inputs :
       /\ vdata[OriginalInput(x).vreg].is_constant
       /\ IsConstant(ops[InputLoc(x)])
       /\ OriginalInput(x).vreg \notin spilled

\* The registers that hold a virtual register.
AllocatedRegisters ==
  {x \in Kinds \X (0 .. 1) : /\ x[2] \in RegIndices(x[1]) /\ has_state[x[1]]
                             /\ RegIsAllocated(State, x[1], x[2])}

\* An input of the instruction of the register's last use reads the vreg of
\* the register and was committed to the register (AllocateUse).
HasCommittedUse(k, r) ==
  \E x \in Inputs :
    /\ x[1] = regs[k][r].last_use_instr_index
    /\ OriginalInput(x).vreg = regs[k][r].virtual_register
    /\ ops[InputLoc(x)] = AllocatedOperandForReg(k, r, regs[k][r].virtual_register)

\* The operand at loc of state t is a spill operand of v.
IsSpillOperandIn(t, loc, v) ==
  \/ /\ IsPending(t.ops[loc])
     /\ \E n \in 1 .. Cardinality(DOMAIN t.ops) :
          loc \in Elements(ChainIn(t.ops, t.vdata[v].spill_operand, n))
  \/ /\ ~IsPending(t.ops[loc])
     /\ t.ops[loc] = t.ops[t.vdata[v].spill_operand]

\* Spilling register r adds no gap move: it turns the pending uses of r into
\* spill operands of its vreg and writes no other operand.
SpillAddsNoGapMove(k, r) ==
  LET t == SpillRegister(State, k, r)
      uses == Elements(PendingUseChain(k, r))
  IN /\ DOMAIN t.ops = DOMAIN ops
     /\ \A loc \in uses : IsSpillOperandIn(t, loc, regs[k][r].virtual_register)
     /\ \A loc \in DOMAIN ops \ uses : t.ops[loc] = ops[loc]
     /\ ~RegIsAllocated(t, k, r)

\* Spilling register r adds one gap move at the END of the instruction of
\* its last use, from the spill operand of its vreg into the register.
SpillAddsGapMove(k, r) ==
  LET t == SpillRegister(State, k, r)
      i == regs[k][r].last_use_instr_index
      n == NumMoves(State, i, "END")
  IN /\ DOMAIN t.ops \ DOMAIN ops = {GapLoc(i, "END", n, "src"), GapLoc(i, "END", n, "dst")}
     /\ t.ops[GapLoc(i, "END", n, "dst")] = AllocatedOperandForReg(k, r, regs[k][r].virtual_register)
     /\ IsSpillOperandIn(t, GapLoc(i, "END", n, "src"), regs[k][r].virtual_register)

\* C15: a register that has only pending uses has needs_gap_move_on_spill
\* false and spilling it adds no gap move, it only turns its pending operands
\* into spill operands of its vreg; a register with a committed Use has
\* needs_gap_move_on_spill true.
C15_GapMoveOnSpill ==
  \A x \in AllocatedRegisters :
    /\ regs[x[1]][x[2]].needs_gap_move_on_spill <=> HasCommittedUse(x[1], x[2])
    /\ ~HasCommittedUse(x[1], x[2]) => SpillAddsNoGapMove(x[1], x[2])
    /\ HasCommittedUse(x[1], x[2]) => SpillAddsGapMove(x[1], x[2])

\* One register has two pending uses and no other, another has a committed
\* use.
C15_Witness ==
  /\ \E x \in AllocatedRegisters :
       /\ ~regs[x[1]][x[2]].needs_gap_move_on_spill
       /\ Len(PendingUseChain(x[1], x[2])) >= 2
  /\ \E x \in AllocatedRegisters : regs[x[1]][x[2]].needs_gap_move_on_spill

LoopHeaders == {b \in BlockIds : InstructionBlockAt(b).loop_header}

\* The last instruction of the last block of the loop headed by b.
LastLoopInstr(b) == InstructionBlockAt(InstructionBlockAt(b).loop_end - 1).last

LoopInstrs(b) == InstructionBlockAt(b).first .. LastLoopInstr(b)

\* The spilled vregs whose spill range is live at the first instruction of b.
LiveAtHeader(b) ==
  {v \in spilled : /\ HasSpillRange(State, v)
                   /\ IsLiveAt(State, v, InstructionBlockAt(b).first, b)}

AfterLoops == pc.phase \in {"slots", "refmaps", "done"}
AfterSlots == pc.phase \in {"refmaps", "done"}

\* C16: after UpdateSpillRangesForLoops the live range of every spilled vreg
\* whose spill range is live at the first instruction of a loop header ends
\* no earlier than the last instruction of the last block of the loop, and
\* after AllocateSpillSlots no other vreg has its stack slot at an
\* instruction of the loop.
C16_LoopSpillRanges ==
  \A b \in LoopHeaders : \A v \in LiveAtHeader(b) :
    /\ AfterLoops => vdata[v].live_range.end >= LastLoopInstr(b)
    /\ AfterSlots =>
         \A w \in ResolvedByAllocate \ {v} :
           SpillSlotOf(w) = SpillSlotOf(v) =>
             \A i \in LoopInstrs(b) : ~Contains(vdata[w].live_range, i)

\* Allocation is over in a program with an inner loop; a vreg defined before
\* the outer loop is spilled, live at both headers, and does not share its
\* slot with a vreg that is spilled inside the outer loop.
C16_Witness ==
  /\ Done
  /\ \E b \in LoopHeaders : \E c \in LoopHeaders \ {b} :
       \E v \in LiveAtHeader(b) \cap LiveAtHeader(c) \cap ResolvedByAllocate :
         /\ vdata[v].output_instr_index < InstructionBlockAt(b).first
         /\ LastLoopInstr(c) < LastLoopInstr(b)
         /\ \E w \in ResolvedByAllocate \ {v} :
              /\ vdata[w].live_range.start > InstructionBlockAt(b).first
              /\ vdata[w].live_range.end <= LastLoopInstr(b)
              /\ SpillSlotOf(w) # SpillSlotOf(v)

\* The place of a step in the body of the instruction loop.
StepRank(step) ==
  CASE step = "reserve" -> 0
    [] step = "outputs" -> 1
    [] step = "clobber" -> 2
    [] step = "temps" -> 3
    [] step = "inputs" -> 4
    [] step = "inputs_at_start" -> 5
    [] step = "gap_moves" -> 6
    [] step = "end_instruction" -> 7
    [] OTHER -> -1

\* The driver moves on: blocks downwards, instructions of a block downwards
\* from its last, each from reserve to EndInstruction, operands of one step
\* by increasing index.
DriverOrder ==
  /\ (pc.phase = "define" /\ pc'.phase = "start_block") => pc'.block = NumBlocks - 1
  /\ pc.phase = "start_block" =>
       \/ pc'.phase = "aborted"
       \/ /\ pc'.phase = "alloc" /\ pc'.block = pc.block /\ pc'.step = "reserve"
          /\ pc'.instr = InstructionBlockAt(pc.block).last
  /\ pc.phase = "alloc" =>
       \/ pc'.phase = "aborted"
       \/ /\ pc'.phase = "alloc" /\ pc'.block = pc.block /\ pc'.instr = pc.instr
          /\ \/ StepRank(pc'.step) > StepRank(pc.step)
             \/ pc'.step = pc.step /\ pc'.idx > pc.idx
       \/ /\ pc'.phase = "alloc" /\ pc'.block = pc.block /\ pc'.instr = pc.instr - 1
          /\ pc.step = "end_instruction" /\ pc'.step = "reserve"
          /\ pc'.instr >= InstructionBlockAt(pc.block).first
       \/ /\ pc'.phase = "end_block" /\ pc'.block = pc.block
          /\ pc.step = "end_instruction"
          /\ pc.instr = InstructionBlockAt(pc.block).first
  /\ pc.phase = "end_block" =>
       \/ pc'.phase = "aborted"
       \/ pc'.phase = "start_block" /\ pc'.block = pc.block - 1
       \/ pc'.phase = "loops" /\ pc.block = 0

OperandLocs(i, what) == {loc \in DOMAIN Original.ops : loc[2] = i /\ loc[3] = what}
Handled(loc) == ~IsUnallocated(ops[loc])
Untouched(loc) == ops[loc] = Original.ops[loc]

\* While instruction i is at the step of rank r, operand idx: the operands of
\* the steps before are allocated and the ones to come are as the selector
\* wrote them (but for the input a same-as-input output has rewritten).
StepsInOrder(i, r, idx) ==
  /\ \A loc \in OperandLocs(i, "out") :
       IF r > 1 \/ (r = 1 /\ loc[4] < idx) THEN Handled(loc) ELSE Untouched(loc)
  /\ \A loc \in OperandLocs(i, "tmp") :
       IF r > 3 \/ (r = 3 /\ loc[4] < idx) THEN Handled(loc) ELSE Untouched(loc)
  /\ \A loc \in OperandLocs(i, "in") :
       IF Original.ops[loc].at_start
       THEN IF r > 5 \/ (r = 5 /\ loc[4] < idx) THEN Handled(loc)
            ELSE Untouched(loc) \/ IsSameAsOutputInput(<<i, loc[4] + 1>>)
       ELSE IF r > 4 \/ (r = 4 /\ loc[4] < idx) THEN Handled(loc)
            ELSE Untouched(loc) \/ IsSameAsOutputInput(<<i, loc[4] + 1>>)
  /\ r = 7 => UnallocatedGapSources(State, i) = {}

\* Instructions after the current one are finished, instructions before it
\* have not been started.
InstructionsInOrder ==
  pc.phase = "alloc" =>
    /\ StepsInOrder(pc.instr, StepRank(pc.step), pc.idx)
    /\ \A j \in InstrIds :
         /\ j > pc.instr => StepsInOrder(j, 7, 0)
         /\ j < pc.instr => StepsInOrder(j, 0, 0)

\* C17: AllocateRegisters takes the blocks in reverse order and the
\* instructions of a block in strictly decreasing index order, and runs the
\* steps of an instruction in the order reserve fixed registers, outputs,
\* spill on clobber, temps, inputs not used at start, inputs used at start,
\* unallocated sources of the END gap moves, EndInstruction.
C17_StepOrder == [][DriverOrder /\ InstructionsInOrder']_vars

\* EndInstruction is due for an instruction with an output, a temp, an
\* input and an END gap move, which is not the last of its block.
C17_Witness ==
  /\ pc.phase = "alloc" /\ pc.step = "end_instruction"
  /\ OutputCount(pc.instr) > 0 /\ TempCount(pc.instr) > 0 /\ InputCount(pc.instr) > 0
  /\ NumMoves(State, pc.instr, "END") > 0
  /\ pc.instr < InstructionBlockAt(pc.block).last

UsePositions == {"kStart", "kEnd", "kAll"}

\* The allocator of kind k has no free register for a use at pos, which is
\* when ChooseRegisterFor calls ChooseRegisterToSpill.
NoFreeRegister(k, pos) ==
  /\ pc.phase = "alloc" /\ has_state[k]
  /\ ~is_valid(ChooseFreeRegister(State, k, pos))

NotInUse(k, pos) == RegIndices(k) \ InUseBitmap(State, k, pos)

\* C18: ChooseRegisterToSpill returns a valid register outside in_use(pos)
\* whenever a register is outside in_use(pos); when every allocatable
\* register is in in_use(pos) it finds none and the check that a register
\* was chosen fails.
C18_ChoosesRegisterNotInUse ==
  \A k \in Kinds : \A pos \in UsePositions :
    NoFreeRegister(k, pos) =>
      /\ NotInUse(k, pos) # {} =>
           /\ ChooseRegisterToSpill(State, k, pos) \in NotInUse(k, pos)
           /\ ChooseRegisterForRep(State, k, pos, TRUE).reg \in NotInUse(k, pos)
           /\ ChooseRegisterForRep(State, k, pos, TRUE).s.failed = ""
      /\ NotInUse(k, pos) = {} =>
           /\ ~is_valid(ChooseRegisterToSpill(State, k, pos))
           /\ ChooseRegisterForRep(State, k, pos, TRUE).s.failed
                = "DCHECK(chosen_reg.is_valid())"

\* The input that AllocateInput takes next.
NextInput == ops[InstrLoc(pc.instr, "in", pc.idx)]
NextInputPos == IF NextInput.at_start THEN "kStart" ELSE "kAll"

\* AllocateInput is about to call ChooseRegisterToSpill: the next input must
\* have a register, its vreg has none and no register is free for it.
AtSpillChoice ==
  /\ pc.phase = "alloc" /\ pc.step \in {"inputs", "inputs_at_start"}
  /\ HasRegisterPolicy(NextInput)
  /\ ~is_valid(RegisterForVirtualRegister(State, AllocatorFor(NextInput), NextInput.vreg))
  /\ NoFreeRegister(AllocatorFor(NextInput), NextInputPos)

\* The choice is about to be made with one register in use by an earlier
\* input of the instruction and the other one to spill.
C18_Witness ==
  /\ AtSpillChoice
  /\ Cardinality(NotInUse(AllocatorFor(NextInput), NextInputPos)) = 1
  /\ InUseBitmap(State, AllocatorFor(NextInput), NextInputPos) # {}

\* The vregs defined by instructions, and the inputs that read v.
DefinedVregs == {v \in InstrIds : OutputCount(v) > 0}
UsesOf(v) == {x \in Inputs : OriginalInput(x).vreg = v}

\* The vregs of kind k defined at or before instruction j and read after it.
LiveAfter(k, j) ==
  {v \in DefinedVregs : /\ KindOf(v) = k /\ v <= j
                        /\ \E x \in UsesOf(v) : x[1] > j}

\* One block in which every input must have a register and every vreg is
\* read at most once, and three vregs of kind k are live at the same time.
ThreeLive(k) ==
  /\ NumBlocks = 1
  /\ \A x \in Inputs : HasRegisterPolicy(OriginalInput(x))
  /\ \A v \in DefinedVregs : /\ HasRegisterPolicy(InstructionAt(v).out[1])
                             /\ Cardinality(UsesOf(v)) <= 1
  /\ \E j \in InstrIds : Cardinality(LiveAfter(k, j)) = 3

\* The gap move that reloads v for its use x: at the END position of the
\* instruction of x, from the spill slot of v into the register of x.
ReloadedFor(v, x) ==
  \E m \in GapMoves :
    /\ m[1] = x[1] /\ m[2] = "END"
    /\ IsStackSlotOperand(GapSource(m)) /\ GapSource(m) = ops[vdata[v].spill_operand]
    /\ IsRegisterOperand(GapDestination(m)) /\ GapDestination(m) = ops[InputLoc(x)]

\* C19: with three vregs of one kind live at the same time, read by inputs
\* that must have a register, and two allocatable registers, exactly one
\* vreg is spilled; a gap move from its spill slot into its register is
\* placed at the instruction of its later use, and the slot requested from
\* the frame has the byte width of the vreg's representation.
C19_OneSpillUnderPressure ==
  \A k \in Kinds :
    (Done /\ ThreeLive(k) /\ num_allocatable_registers(k) = 2) =>
      /\ Cardinality(spilled) = 1
      /\ \A v \in spilled :
           /\ KindOf(v) = k
           /\ \A x \in UsesOf(v) : ReloadedFor(v, x)
           /\ frame.widths = <<ByteWidthForStackSlot(RepresentationFor(v))>>

\* Allocation is over for three doubles live at once, one of them spilled
\* to a slot of eight bytes.
C19_Witness ==
  /\ Done /\ ThreeLive("double")
  /\ \E v \in spilled : UsesOf(v) # {} /\ frame.widths = <<8>>

\* The registers ChooseRegisterToSpill may take at the choice to be made, and
\* the vreg each of them holds.
SpillCandidates == NotInUse(AllocatorFor(NextInput), NextInputPos)
VregIn(r) == VirtualRegisterForRegister(State, AllocatorFor(NextInput), r)

\* The candidates the priority order leaves: those with pending uses only
\* if there are any, of these the ones whose vreg has a spill operand if
\* there are any, of these the ones whose vreg was defined earliest.
PendingOnlyFirst ==
  LET only == {r \in SpillCandidates : HasPendingUsesOnly(State, AllocatorFor(NextInput), r)}
  IN IF only # {} THEN only ELSE SpillCandidates

SpilledFirst ==
  LET already == {r \in PendingOnlyFirst : HasSpillOperand(State, VregIn(r))}
  IN IF already # {} THEN already ELSE PendingOnlyFirst

EarliestFirst ==
  {r \in SpilledFirst :
     \A q \in SpilledFirst :
       vdata[VregIn(r)].output_instr_index <= vdata[VregIn(q)].output_instr_index}

\* C20: ChooseRegisterToSpill picks among the registers not in in_use(pos)
\* in strict priority order: a register with pending uses only whenever
\* there is one, among those (or among all, when there is none) a register
\* whose vreg already has a spill operand, and of the remaining ones the
\* register whose vreg has the earliest output_instr_index.
C20_StrictPriority ==
  AtSpillChoice =>
    ChooseRegisterToSpill(State, AllocatorFor(NextInput), NextInputPos) \in EarliestFirst

\* The registers of kind k that are in use at pos or hold a vreg.
Taken(k, pos) ==
  allocated_bits[k] \cup
    (IF pos = "kStart" THEN in_use_start[k]
     ELSE IF pos = "kEnd" THEN in_use_end[k]
     ELSE in_use_start[k] \cup in_use_end[k])

\* C21: ChooseFreeRegister(rep, pos) returns the lowest-indexed allocatable
\* register that is neither in in_use(pos) (the start bits for Start, the end
\* bits for End, their union for All) nor in allocated_registers, and returns
\* invalid exactly when every allocatable register is in one of those sets.
C21_LowestFreeRegister ==
  \A k \in Kinds : \A pos \in UsePositions :
    LET r == ChooseFreeRegister(State, k, pos) IN
    /\ is_valid(r) =>
         /\ r \in RegIndices(k) \ Taken(k, pos)
         /\ \A q \in RegIndices(k) : q < r => q \in Taken(k, pos)
    /\ ~is_valid(r) <=> RegIndices(k) \subseteq Taken(k, pos)

\* An instruction is being allocated with register 0 in use at its end only
\* and register 1 free: the answer differs with the position asked for.
C21_Witness ==
  /\ pc.phase = "alloc"
  /\ \E k \in Kinds :
       /\ has_state[k]
       /\ ChooseFreeRegister(State, k, "kStart") = 0
       /\ ChooseFreeRegister(State, k, "kEnd") = 1
       /\ ChooseFreeRegister(State, k, "kAll") = 1

\* C22: ChooseRegisterFor(vreg, pos, must_use_register) returns the register
\* the vreg is mapped to if there is one; otherwise, when must_use_register
\* is false and the vreg has a spill operand (pending, allocated or constant),
\* it returns invalid, changes no register state and spills no register.
C22_KeepsRegisterOrDeclines ==
  \A v \in VregIds : \A pos \in UsePositions : \A must_use_register \in BOOLEAN :
    (pc.phase = "alloc" /\ has_state[KindOf(v)]) =>
      LET res == ChooseRegisterFor(State, KindOf(v), v, pos, must_use_register)
          reg == RegisterForVirtualRegister(State, KindOf(v), v)
      IN /\ is_valid(reg) => res.reg = reg /\ res.s = State
         /\ (~is_valid(reg) /\ ~must_use_register /\ HasSpillOperand(State, v)) =>
              ~is_valid(res.reg) /\ res.s = State

\* AllocateInput is about to ask for a register for an input that need not
\* have one: its vreg has a pending spill operand and no register, and a
\* register is free; another vreg with a constant spill operand holds a
\* register.
C22_Witness ==
  /\ pc.phase = "alloc" /\ pc.step \in {"inputs", "inputs_at_start"}
  /\ IsUnallocated(NextInput)
  /\ NextInput.policy \in {"REGISTER_OR_SLOT", "REGISTER_OR_SLOT_OR_CONSTANT"}
  /\ SpillOperandRank(NextInput.vreg) = 1
  /\ ~is_valid(RegisterForVirtualRegister(State, AllocatorFor(NextInput), NextInput.vreg))
  /\ is_valid(ChooseFreeRegister(State, AllocatorFor(NextInput), NextInputPos))
  /\ \E v \in VregIds : is_valid(RegisterForVirtualRegister(State, KindOf(v), v))

\* The operand at loc, a pending use of register r of kind k that held v, is
\* resolved in state t: it is the AllocatedOperand of r or a spill operand of v.
ResolvedIn(t, loc, k, r, v) ==
  \/ t.ops[loc] = AllocatedOperandForReg(k, r, v)
  \/ IsSpillOperandIn(t, loc, v)

\* Commit and Spill applied to register r leave its chain empty and every
\* operand that was on it resolved.
EmptiesChain(k, r) ==
  LET v == regs[k][r].virtual_register
      uses == Elements(PendingUseChain(k, r))
      committed == RegisterCommit(State, k, r, AllocatedOperandForReg(k, r, v))
      spilled_to == SpillRegister(State, k, r)
  IN /\ committed.regs[k][r].pending_uses = NoLoc
     /\ \A loc \in uses : committed.ops[loc] = AllocatedOperandForReg(k, r, v)
     /\ spilled_to.regs[k][r].pending_uses = NoLoc
     /\ \A loc \in uses : IsSpillOperandIn(spilled_to, loc, v)

\* C23: every pending use placed on a register in a block is resolved exactly
\* once before the block ends, to the AllocatedOperand of the register if the
\* register is committed or to the spill operand of its vreg if it is spilled;
\* after Commit or Spill the chain of the register is empty and none of its
\* operands is left pending on the register; a resolved register or constant
\* operand is never written again.
C23_PendingUsesResolved ==
  [][/\ \A x \in AllocatedRegisters :
          LET k == x[1]
              r == x[2]
              uses == Elements(PendingUseChain(k, r))
          IN /\ EmptiesChain(k, r)
             /\ \/ uses \subseteq Elements(PendingUseChain(k, r)')
                \/ /\ uses \cap Elements(PendingUseChain(k, r)') = {}
                   /\ \A loc \in uses :
                        ResolvedIn(State', loc, k, r, regs[k][r].virtual_register)
     /\ \A loc \in DOMAIN ops :
          (IsRegisterOperand(ops[loc]) \/ IsConstant(ops[loc])) => ops'[loc] = ops[loc]
     /\ pc'.phase \notin {"alloc", "end_block"} =>
          /\ \A k \in Kinds : \A r \in RegIndices(k) : PendingUseChain(k, r)' = <<>>
          /\ \A loc \in DOMAIN ops' :
               IsPending(ops'[loc]) => \E v \in VregIds : loc \in Elements(SpillChain(v)')]_vars

\* An input that need not be in a register was a pending use and now holds the
\* register its vreg was committed to, while a register carries a pending
\* use waiting for the definition of its vreg.
C23_Witness ==
  /\ pc.phase = "alloc"
  /\ \E x \in Inputs :
       /\ OriginalInput(x).policy = "REGISTER_OR_SLOT"
       /\ IsRegisterOperand(ops[InputLoc(x)])
  /\ \E x \in AllocatedRegisters : Len(PendingUseChain(x[1], x[2])) >= 1

\* The registers that hold a vreg and need a gap move when spilled.
NeedGapMove == {x \in AllocatedRegisters : regs[x[1]][x[2]].needs_gap_move_on_spill}

\* Register::Spill of register r adds one gap move at the END of the
\* instruction of its last use, from the spill operand of its vreg (the
\* ConstantOperand of a constant vreg) into the register, turns every pending
\* use into a spill operand of the vreg, writes nothing else and leaves the
\* register unallocated.
SpillMovesAndConverts(k, r) ==
  LET v == regs[k][r].virtual_register
      i == regs[k][r].last_use_instr_index
      n == NumMoves(State, i, "END")
      uses == Elements(PendingUseChain(k, r))
      t == RegisterSpill(State, k, r, AllocatedOperandForReg(k, r, v))
  IN /\ DOMAIN t.ops \ DOMAIN ops = {GapLoc(i, "END", n, "src"), GapLoc(i, "END", n, "dst")}
     /\ t.ops[GapLoc(i, "END", n, "dst")] = AllocatedOperandForReg(k, r, v)
     /\ IsSpillOperandIn(t, GapLoc(i, "END", n, "src"), v)
     /\ vdata[v].is_constant => t.ops[GapLoc(i, "END", n, "src")] = ConstantOperand(v)
     /\ \A loc \in uses : IsSpillOperandIn(t, loc, v)
     /\ \A loc \in DOMAIN ops \ uses : t.ops[loc] = ops[loc]
     /\ t.regs[k][r].pending_uses = NoLoc
     /\ ~is_allocated(t.regs[k][r])

\* Register::Spill of register r leaves its vreg with a spill range that
\* includes the instruction of the register's last use.
SpillExtendsRange(k, r) ==
  LET v == regs[k][r].virtual_register
      t == RegisterSpill(State, k, r, AllocatedOperandForReg(k, r, v))
  IN /\ HasSpillRange(t, v)
     /\ Contains(t.vdata[v].live_range, regs[k][r].last_use_instr_index)

\* C24 as stated: Register::Spill with needs_gap_move_on_spill set adds the
\* gap move, converts the pending uses, leaves the register unallocated and
\* extends the spill range of the vreg to last_use_instr_index, whatever the
\* vreg is.
C24_SpillExtendsEveryRange ==
  \A x \in NeedGapMove : SpillMovesAndConverts(x[1], x[2]) /\ SpillExtendsRange(x[1], x[2])

\* C24: Register::Spill with needs_gap_move_on_spill set adds exactly one gap
\* move at END of last_use_instr_index from the spill operand of the vreg (the
\* constant itself for a constant vreg) into the register, converts every
\* pending use into the spill operand and leaves the register unallocated; it
\* extends the spill range to last_use_instr_index when the vreg is not a
\* constant, and a constant vreg gets no spill range.
C24_SpillWithGapMove ==
  \A x \in NeedGapMove :
    LET v == regs[x[1]][x[2]].virtual_register
        t == RegisterSpill(State, x[1], x[2], AllocatedOperandForReg(x[1], x[2], v))
    IN /\ SpillMovesAndConverts(x[1], x[2])
       /\ IF vdata[v].is_constant THEN ~HasSpillRange(t, v) /\ t.vdata = vdata
          ELSE SpillExtendsRange(x[1], x[2])

\* A register with a committed use and a pending use holds a vreg whose spill
\* range does not reach the last use yet, and another holds a constant.
C24_Witness ==
  /\ \E x \in NeedGapMove :
       LET v == regs[x[1]][x[2]].virtual_register IN
       /\ ~vdata[v].is_constant
       /\ PendingUseChain(x[1], x[2]) # <<>>
       /\ ~(HasSpillRange(State, v) /\
            Contains(vdata[v].live_range, regs[x[1]][x[2]].last_use_instr_index))
  /\ \E x \in NeedGapMove : vdata[regs[x[1]][x[2]].virtual_register].is_constant

\* The instructions of the uses recorded on register r: its pending uses and,
\* when it has one, its committed use.
RecordedUses(k, r) ==
  {loc[2] : loc \in Elements(PendingUseChain(k, r))} \cup
    {x[1] : x \in {y \in Inputs : /\ regs[k][r].needs_gap_move_on_spill
                                  /\ OriginalInput(y).vreg = regs[k][r].virtual_register
                                  /\ ops[InputLoc(y)] =
                                       AllocatedOperandForReg(k, r, regs[k][r].virtual_register)
                                  /\ y[1] >= pc.instr
                                  /\ y[1] <= regs[k][r].last_use_instr_index}}

\* PendingUse applied to the allocated register r passes its checks exactly
\* for the vreg of r and an instruction not after the last use, and then
\* leaves last_use_instr_index alone; Use applied to it fails.
PendingUseKeepsLastUse(k, r) ==
  LET loc == CHOOSE l \in DOMAIN ops : TRUE IN
  \A v \in VregIds : \A i \in InstrIds :
    LET t == RegisterPendingUse(State, k, r, loc, v, i) IN
    /\ t.failed = "" <=> (v = regs[k][r].virtual_register /\ i <= regs[k][r].last_use_instr_index)
    /\ t.regs[k][r].last_use_instr_index = regs[k][r].last_use_instr_index
    /\ t.regs[k][r].pending_uses = loc
    /\ RegisterUse(State, k, r, v, i).failed # ""

\* C25: while a register is allocated, last_use_instr_index is the largest
\* instruction index of the uses, pending or committed, recorded since its
\* last reset; PendingUse on an allocated register requires the same vreg and
\* an instruction not after last_use_instr_index and never changes it; Use is
\* only applied to an unallocated register, AllocateUse having committed and
\* reset the register first.
C25_LastUseIsLargest ==
  /\ failed = ""
  /\ \A x \in AllocatedRegisters :
       LET k == x[1]
           r == x[2]
           v == regs[k][r].virtual_register
           t == StateCommit(State, k, r, AllocatedOperandForReg(k, r, v),
                            CHOOSE l \in DOMAIN ops : TRUE)
       IN /\ RecordedUses(k, r) # {}
          /\ regs[k][r].last_use_instr_index \in RecordedUses(k, r)
          /\ \A i \in RecordedUses(k, r) : i <= regs[k][r].last_use_instr_index
          /\ PendingUseKeepsLastUse(k, r)
          /\ ~is_allocated(reg_data(t, k, r))
          /\ RegisterUse(t, k, r, v, pc.instr).failed = ""

\* A register has a committed use and, at an earlier instruction, a pending
\* use of the same vreg.
C25_Witness ==
  \E x \in AllocatedRegisters :
    /\ regs[x[1]][x[2]].needs_gap_move_on_spill
    /\ \E loc \in Elements(PendingUseChain(x[1], x[2])) :
         loc[2] < regs[x[1]][x[2]].last_use_instr_index

\* The instructions whose START gap receives a move from the output of
\* instruction i: the next instruction, or the first of each successor block
\* when i ends its block.
OutputTargets(i) ==
  LET block == InstructionBlockAt(BlockOfInstr(i)) IN
  IF i = block.last
  THEN {InstructionBlockAt(block.successors[n]).first : n \in 1 .. Len(block.successors)}
  ELSE {i + 1}

\* The START moves at instruction j of state t from operand from into the
\* spill operand of v.
MovesToSpillSlot(t, j, from, v) ==
  {n \in 0 .. (NumMoves(t, j, "START") - 1) :
     /\ t.ops[GapLoc(j, "START", n, "src")] = from
     /\ IsSpillOperandIn(t, GapLoc(j, "START", n, "dst"), v)}

\* The destinations of the gap moves added by the step.
NewDestinations == {loc \in DOMAIN ops' \ DOMAIN ops : loc[1] = "G" /\ loc[5] = "dst"}

\* The vregs defined by an instruction whose spill operand is a stack slot.
DefinedWithSlot ==
  {v \in VregIds : /\ v < NumInstr /\ ~vdata[v].is_constant
                   /\ SpillOperandRank(v) = 2 /\ HasSpillRange(State, v)}

\* The definition of v writes the spill slot of v: its output operand is the
\* slot, or it is a register that a START move at every target copies into
\* the slot.
DefinitionWritesSlot(v) ==
  LET out == ops[InstrLoc(v, "out", 0)] IN
  \/ out = ops[vdata[v].spill_operand]
  \/ /\ IsRegisterOperand(out)
     /\ \A j \in OutputTargets(v) : MovesToSpillSlot(State, j, out, v) # {}

\* C26: when AllocateOutput commits a register for a vreg that is not a
\* constant and has a spill operand, pending or allocated, it adds a gap move
\* from the output register to the spill operand of the vreg at START of the
\* next instruction, or of the first instruction of each successor, and adds
\* none otherwise; so at the end the definition of every spilled vreg writes
\* its spill slot.
C26_OutputMovedToSpillSlot ==
  [][/\ (pc.phase = "alloc" /\ pc.step = "outputs") =>
          LET loc == InstrLoc(pc.instr, "out", pc.idx)
              v == ops[loc].vreg
          IN (~IsConstant(ops[loc]) /\ IsRegisterOperand(ops'[loc])) =>
               IF SpillOperandRank(v) > 0 /\ ~vdata[v].is_constant
               THEN /\ \A j \in OutputTargets(pc.instr) :
                         /\ Cardinality(MovesToSpillSlot(State', j, ops'[loc], v)) = 1
                         /\ \E n \in MovesToSpillSlot(State', j, ops'[loc], v) :
                              GapLoc(j, "START", n, "dst") \in NewDestinations
                    /\ \A dst \in NewDestinations :
                         IsRegisterOperand(ops'[dst]) \/ dst[2] \in OutputTargets(pc.instr)
               ELSE \A dst \in NewDestinations : IsRegisterOperand(ops'[dst])
     /\ Done' => \A v \in DefinedWithSlot' : DefinitionWritesSlot(v)']_vars

\* AllocateOutput is about to give a register to the output of a vreg that
\* an instruction further down reads from its spill operand.
C26_Witness ==
  /\ pc.phase = "alloc" /\ pc.step = "outputs"
  /\ LET loc == InstrLoc(pc.instr, "out", pc.idx) IN
     /\ IsUnallocated(ops[loc])
     /\ SpillOperandRank(ops[loc].vreg) > 0 /\ ~vdata[ops[loc].vreg].is_constant
     /\ IsRegisterOperand(AllocateOutputOf(State, pc.instr, pc.idx).ops[loc])
     /\ \E x \in Inputs : /\ OriginalInput(x).vreg = ops[loc].vreg
                          /\ IsSpillOperandIn(State, InputLoc(x), ops[loc].vreg)

\* Every successor of the block that instruction i ends has one predecessor.
SuccessorsHaveOnePredecessor(i) ==
  LET block == InstructionBlockAt(BlockOfInstr(i)) IN
  i = block.last =>
    \A n \in 1 .. Len(block.successors) :
      Len(InstructionBlockAt(block.successors[n]).predecessors) = 1

\* EmitGapMoveFromOutputToSpillSlot applied to vreg v and instruction i adds
\* one START move from operand from into the spill operand of v at every
\* target, nothing else, and the spill range of v includes every target.
EmitsOneMovePerTarget(v, i, from) ==
  LET t == EmitGapMoveFromOutputToSpillSlot(State, v, from, BlockOfInstr(i), i) IN
  /\ t.failed = "" <=> SuccessorsHaveOnePredecessor(i)
  /\ t.failed = "" =>
       /\ \A j \in OutputTargets(i) :
            LET n == NumMoves(State, j, "START") IN
            /\ NumMoves(t, j, "START") = n + 1
            /\ t.ops[GapLoc(j, "START", n, "src")] = from
            /\ IsSpillOperandIn(t, GapLoc(j, "START", n, "dst"), v)
            /\ HasSpillRange(t, v)
            /\ Contains(t.vdata[v].live_range, j)
       /\ Cardinality(DOMAIN t.ops \ DOMAIN ops) = 2 * Cardinality(OutputTargets(i))
       /\ \A loc \in DOMAIN ops : t.ops[loc] # ops[loc] => loc \in Elements(SpillChain(v))

\* C27: EmitGapMoveFromOutputToSpillSlot(from, block, i) adds one START gap
\* move at the first instruction of each successor when i is the last
\* instruction of the block, each successor having exactly one predecessor or
\* else the assertion fails, and exactly one START gap move at i + 1
\* otherwise; the spill range of the vreg is extended to include every
\* instruction that receives the move.
C27_MoveAtNextOrSuccessors ==
  pc.phase = "alloc" =>
    \A v \in VregIds : \A i \in InstrIds :
      NeedsSpillAtOutput(State, v) =>
        EmitsOneMovePerTarget(v, i, AllocatedOperandForReg(KindOf(v), 0, v))

\* AllocateOutput is about to call it for a definition that ends a block with
\* two successors, in a graph where another block ends before a join.
C27_Witness ==
  /\ pc.phase = "alloc" /\ pc.step = "outputs"
  /\ pc.instr = InstructionBlockAt(pc.block).last
  /\ Cardinality(OutputTargets(pc.instr)) = 2
  /\ LET loc == InstrLoc(pc.instr, "out", pc.idx) IN
     /\ IsUnallocated(ops[loc])
     /\ NeedsSpillAtOutput(State, ops[loc].vreg)
     /\ IsRegisterOperand(AllocateOutputOf(State, pc.instr, pc.idx).ops[loc])
  /\ \E i \in InstrIds : ~SuccessorsHaveOnePredecessor(i)

\* The driver has finished instruction i.
FullyAllocated(i) ==
  \/ pc.phase \in {"loops", "slots", "refmaps", "done"}
  \/ pc.phase = "start_block" /\ BlockOfInstr(i) > pc.block
  \/ pc.phase = "end_block" /\ BlockOfInstr(i) >= pc.block
  \/ /\ pc.phase = "alloc"
     /\ \/ BlockOfInstr(i) > pc.block
        \/ BlockOfInstr(i) = pc.block /\ i > pc.instr
        \/ i = pc.instr /\ pc.step = "end_instruction"

\* The instructions whose output has the same-as-input policy.
SameAsInputInstrs ==
  {i \in InstrIds : OutputCount(i) >= 1 /\ HasSameAsInputPolicy(InstructionAt(i).out[1])}

\* The operand at loc holds vreg u: it is a register, a spill operand of u or
\* a pending use of a register that holds u.
HoldsVreg(loc, u) ==
  \/ IsRegisterOperand(ops[loc])
  \/ IsSpillOperandIn(State, loc, u)
  \/ \E x \in AllocatedRegisters :
       /\ regs[x[1]][x[2]].virtual_register = u
       /\ loc \in Elements(PendingUseChain(x[1], x[2]))

\* The output of instruction i and its first input are one register.
SameRegister(i) ==
  LET out == ops[InstrLoc(i, "out", 0)]
      in == ops[InstrLoc(i, "in", 0)]
  IN /\ IsRegisterOperand(in)
     /\ in.index = out.index
     /\ KindOfRep(in.rep) = KindOfRep(out.rep)

\* The output of instruction i and its first input are the spill operand of
\* the output vreg, and an END gap move of i copies the input vreg into it.
SameSpillSlot(i) ==
  LET w == InstructionAt(i).out[1].vreg
      u == InstructionAt(i).in[1].vreg
  IN /\ IsSpillOperandIn(State, InstrLoc(i, "out", 0), w)
     /\ IsSpillOperandIn(State, InstrLoc(i, "in", 0), w)
     /\ Done => ops[InstrLoc(i, "in", 0)] = ops[InstrLoc(i, "out", 0)]
     /\ \E n \in 0 .. (NumMoves(State, i, "END") - 1) :
          /\ IsSpillOperandIn(State, GapLoc(i, "END", n, "dst"), w)
          /\ HoldsVreg(GapLoc(i, "END", n, "src"), u)

\* C28: once an instruction whose output has the same-as-input policy is
\* fully allocated, its output and its first input are the same location: the
\* register of the output, the input having been rewritten to a fixed
\* operand of that register, or the spill slot of the output vreg, into which
\* a gap move at END of the instruction copies the input vreg.
C28_SameAsInput ==
  \A i \in SameAsInputInstrs :
    FullyAllocated(i) =>
      IF IsRegisterOperand(ops[InstrLoc(i, "out", 0)])
      THEN SameRegister(i) ELSE SameSpillSlot(i)

\* Allocation is over and the output of a same-as-input instruction went to
\* the spill slot of its vreg, shared by its first input.
C28_Witness ==
  /\ Done
  /\ \E i \in SameAsInputInstrs :
       /\ ~IsRegisterOperand(ops[InstrLoc(i, "out", 0)])
       /\ ops[InstrLoc(i, "in", 0)] = ops[InstrLoc(i, "out", 0)]
       /\ ops[InstrLoc(i, "out", 0)].loc = "STACK_SLOT"

\* The operand has neither a slot policy nor a fixed policy.
HasFreePolicy(op) ==
  /\ IsUnallocated(op)
  /\ ~HasFixedSlotPolicy(op) /\ ~HasSlotPolicy(op)
  /\ ~HasFixedRegisterPolicy(op) /\ ~HasFixedFPRegisterPolicy(op)

\* must_use_register of AllocateInput for operand op.
MustUseRegister(op) ==
  \/ HasRegisterPolicy(op)
  \/ vdata[op.vreg].is_constant /\ ~HasRegisterOrSlotOrConstantPolicy(op)

\* The step left the operand at loc, read by instruction i, a committed use
\* of a register that is marked in use at pos.
CommittedUseAfter(loc, v, i, pos) ==
  LET k == KindOf(v)
      r == FromRegCode(k, ops'[loc].index)
  IN /\ IsRegisterOperand(ops'[loc])
     /\ ops'[loc] = AllocatedOperandForReg(k, r, v)
     /\ v2r'[k][v] = r /\ r \in allocated_bits'[k]
     /\ regs'[k][r].virtual_register = v
     /\ regs'[k][r].needs_gap_move_on_spill
     /\ regs'[k][r].last_use_instr_index = i
     /\ regs'[k][r].pending_uses = NoLoc
     /\ r \in in_use_start'[k]
     /\ IF pos = "kAll" THEN r \in in_use_end'[k] ELSE in_use_end'[k] = in_use_end[k]

\* The step left the operand at loc the newest pending use of a register
\* that holds v.
PendingUseAfter(loc, v) ==
  LET k == KindOf(v) IN
  /\ IsPending(ops'[loc])
  /\ \E r \in RegIndices(k) :
       /\ regs'[k][r].pending_uses = loc
       /\ regs'[k][r].virtual_register = v
       /\ v2r'[k][v] = r /\ r \in allocated_bits'[k]

\* The step spilled the operand at loc in place and touched no register.
SpilledInPlaceAfter(loc, v) ==
  /\ IsSpillOperandIn(State', loc, v)
  /\ v2r' = v2r /\ allocated_bits' = allocated_bits
  /\ \A k \in Kinds : has_state[k] => regs'[k] = regs[k]

\* C29: AllocateInput of an operand without slot or fixed policy, with
\* must_use_register = HasRegisterPolicy or (constant vreg and not the
\* register-or-slot-or-constant policy): an operand that must use a register
\* ends as a committed register use marked in use at Start (used at start) or
\* All; one that need not becomes a pending use that marks no use position,
\* or is spilled in place when no register is chosen.
C29_InputUseKinds ==
  [][(pc.phase = "alloc" /\ pc.step \in {"inputs", "inputs_at_start"}
        /\ HasFreePolicy(NextInput)) =>
       LET loc == InstrLoc(pc.instr, "in", pc.idx)
           v == NextInput.vreg
           chosen == ChooseRegisterFor(EnsureRegisterState(State, KindOf(v)), KindOf(v), v,
                                       NextInputPos, FALSE).reg
       IN IF MustUseRegister(NextInput)
          THEN CommittedUseAfter(loc, v, pc.instr, NextInputPos)
          ELSE /\ in_use_start' = in_use_start /\ in_use_end' = in_use_end
               /\ IF is_valid(chosen) THEN PendingUseAfter(loc, v)
                  ELSE SpilledInPlaceAfter(loc, v)]_vars

\* AllocateInput is about to commit a register for an input with the register
\* policy, after it made another input of the instruction a pending use.
C29_Witness ==
  /\ pc.phase = "alloc" /\ pc.step \in {"inputs", "inputs_at_start"}
  /\ HasFreePolicy(NextInput) /\ MustUseRegister(NextInput)
  /\ \E x \in Inputs :
       /\ x[1] = pc.instr
       /\ OriginalInput(x).policy = "REGISTER_OR_SLOT"
       /\ \E y \in AllocatedRegisters : regs[y[1]][y[2]].pending_uses = InputLoc(x)

\* Register r of kind k is in use at the start and at the end of the current
\* instruction, holds no vreg and no vreg maps to it, in state t.
InUseButFree(t, k, r) ==
  /\ is_valid(r)
  /\ r \in t.in_use_start[k] /\ r \in t.in_use_end[k]
  /\ r \notin t.allocated_bits[k]
  /\ ~RegIsAllocated(t, k, r)
  /\ \A v \in VregIds : t.v2r[k][v] # r

\* C30: AllocateTemp that obtains a register leaves it marked in use at both
\* Start and End of the current instruction but not allocated: its bit in
\* allocated_registers is clear and no vreg maps to it.
C30_TempInUseNotAllocated ==
  [][(pc.phase = "alloc" /\ pc.step = "temps") =>
       LET loc == InstrLoc(pc.instr, "tmp", pc.idx) IN
       IsRegisterOperand(ops'[loc]) =>
         InUseButFree(State', KindOfRep(ops'[loc].rep),
                      FromRegCode(KindOfRep(ops'[loc].rep), ops'[loc].index))]_vars

\* A temp without a fixed register was given a register of the current
\* instruction while the other register of its kind holds a vreg.
C30_Witness ==
  /\ pc.phase = "alloc" /\ pc.step \in {"temps", "inputs", "inputs_at_start"}
  /\ \E loc \in OperandLocs(pc.instr, "tmp") :
       /\ Original.ops[loc].policy = "MUST_HAVE_REGISTER"
       /\ IsRegisterOperand(ops[loc])
       /\ InUseButFree(State, KindOfRep(ops[loc].rep),
                       FromRegCode(KindOfRep(ops[loc].rep), ops[loc].index))
       /\ allocated_bits[KindOfRep(ops[loc].rep)] # {}

\* C31: AllocateConstantOutput spills the register that holds the vreg of the
\* constant, if any: afterwards the vreg is in no register; a committed use
\* produced one gap move at END of its last use from the ConstantOperand into
\* the register; every pending use was replaced by the ConstantOperand; no
\* spill range and no stack slot was created for the constant.
C31_ConstantOutput ==
  [][(pc.phase = "alloc" /\ pc.step = "outputs"
        /\ IsConstant(ops[InstrLoc(pc.instr, "out", pc.idx)])) =>
       LET v == ops[InstrLoc(pc.instr, "out", pc.idx)].vreg
           k == KindOf(v)
           r == IF has_state[k] THEN v2r[k][v] ELSE Invalid
           i == IF is_valid(r) THEN regs[k][r].last_use_instr_index ELSE -1
           n == IF is_valid(r) THEN NumMoves(State, i, "END") ELSE 0
           uses == IF is_valid(r) THEN Elements(PendingUseChain(k, r)) ELSE {}
           moved == is_valid(r) /\ regs[k][r].needs_gap_move_on_spill
           added == IF moved
                    THEN {GapLoc(i, "END", n, "src"), GapLoc(i, "END", n, "dst")} ELSE {}
       IN /\ \A q \in RegIndices(k) : regs'[k][q].virtual_register # v
          /\ v2r'[k][v] = Invalid
          /\ is_valid(r) => r \notin allocated_bits'[k] /\ ~RegIsAllocated(State', k, r)
          /\ DOMAIN ops' \ DOMAIN ops = added
          /\ moved =>
               /\ ops'[GapLoc(i, "END", n, "src")] = ConstantOperand(v)
               /\ ops'[GapLoc(i, "END", n, "dst")] = AllocatedOperandForReg(k, r, v)
          /\ \A loc \in uses : ops'[loc] = ConstantOperand(v)
          /\ \A loc \in DOMAIN ops \ uses : ops'[loc] = ops[loc]
          /\ vdata' = vdata /\ ~vdata'[v].has_spill_range
          /\ spilled' = spilled /\ frame' = frame /\ slot_alloc' = slot_alloc]_vars

\* AllocateConstantOutput is about to run for a constant that sits in a
\* register with a committed use.
C31_Witness ==
  /\ pc.phase = "alloc" /\ pc.step = "outputs"
  /\ IsConstant(ops[InstrLoc(pc.instr, "out", pc.idx)])
  /\ LET v == ops[InstrLoc(pc.instr, "out", pc.idx)].vreg IN
     /\ has_state[KindOf(v)]
     /\ is_valid(v2r[KindOf(v)][v])
     /\ regs[KindOf(v)][v2r[KindOf(v)][v]].needs_gap_move_on_spill

\* The output allocated by the step went to register R while its vreg lived
\* in another register: <<k, v, R, R'>>, or <<>> when that is not the case.
MovedOutput ==
  IF pc.phase = "alloc" /\ pc.step = "outputs"
  THEN LET loc == InstrLoc(pc.instr, "out", pc.idx)
           v == ops[loc].vreg
           k == KindOf(v)
       IN IF /\ IsUnallocated(ops[loc]) /\ has_state[k] /\ is_valid(v2r[k][v])
             /\ IsRegisterOperand(ops'[loc])
             /\ FromRegCode(k, ops'[loc].index) # v2r[k][v]
          THEN <<k, v, FromRegCode(k, ops'[loc].index), v2r[k][v]>>
          ELSE <<>>
  ELSE <<>>

\* EmitGapMoveFromOutput for instruction i adds one START move from operand
\* from to operand to at every target of i and nothing else.
MoveFromOutputAtTargets ==
  pc.phase = "alloc" =>
    \A i \in InstrIds :
      SuccessorsHaveOnePredecessor(i) =>
        LET from == AllocatedOperandForReg("general", 0, i)
            to == AllocatedOperandForReg("general", 1, i)
            t == EmitGapMoveFromOutput(State, from, to, i)
        IN /\ t.failed = ""
           /\ \A j \in OutputTargets(i) :
                LET n == NumMoves(State, j, "START") IN
                /\ NumMoves(t, j, "START") = n + 1
                /\ t.ops[GapLoc(j, "START", n, "src")] = from
                /\ t.ops[GapLoc(j, "START", n, "dst")] = to
           /\ Cardinality(DOMAIN t.ops \ DOMAIN ops) = 2 * Cardinality(OutputTargets(i))
           /\ \A loc \in DOMAIN ops : t.ops[loc] = ops[loc]

\* C32: when AllocateOutput picks register R for a vreg that lives in a
\* different register R', it commits R' (its pending uses become R', R' is
\* not marked in use for this instruction and is freed), commits R for the
\* output at pos, and adds a gap move from R to R' at START of the next
\* instruction, or of the first instruction of each successor; afterwards
\* neither R nor R' is allocated.
C32_OutputInOtherRegister ==
  [][/\ MoveFromOutputAtTargets
     /\ MovedOutput # <<>> =>
          LET k == MovedOutput[1]
              v == MovedOutput[2]
              R == MovedOutput[3]
              Rold == MovedOutput[4]
              from == AllocatedOperandForReg(k, R, v)
              to == AllocatedOperandForReg(k, Rold, v)
          IN /\ ops'[InstrLoc(pc.instr, "out", pc.idx)] = from
             /\ \A loc \in Elements(PendingUseChain(k, Rold)) : ops'[loc] = to
             /\ Rold \in in_use_start'[k] => Rold \in in_use_start[k]
             /\ Rold \in in_use_end'[k] => Rold \in in_use_end[k]
             /\ R \in in_use_end'[k]
             /\ \A j \in OutputTargets(pc.instr) :
                  LET n == NumMoves(State, j, "START") IN
                  /\ ops'[GapLoc(j, "START", n, "src")] = from
                  /\ ops'[GapLoc(j, "START", n, "dst")] = to
             /\ \A q \in {R, Rold} :
                  /\ q \notin allocated_bits'[k]
                  /\ ~RegIsAllocated(State', k, q)
             /\ v2r'[k][v] = Invalid]_vars

\* AllocateOutput is about to give a fixed register to an output whose vreg
\* lives in the other register, which has a pending use.
C32_Witness ==
  /\ pc.phase = "alloc" /\ pc.step = "outputs"
  /\ LET loc == InstrLoc(pc.instr, "out", pc.idx)
         v == ops[loc].vreg
         k == KindOf(v)
         after == AllocateOutputOf(State, pc.instr, pc.idx)
     IN /\ IsUnallocated(ops[loc]) /\ has_state[k] /\ is_valid(v2r[k][v])
        /\ IsRegisterOperand(after.ops[loc])
        /\ FromRegCode(k, after.ops[loc].index) # v2r[k][v]

\* The register allocator of kind k has the same state in s and t.
SameAllocatorState(s, t, k) ==
  /\ s.has_state[k] = t.has_state[k]
  /\ s.regs[k] = t.regs[k]
  /\ s.v2r[k] = t.v2r[k]
  /\ s.allocated_bits[k] = t.allocated_bits[k]
  /\ s.in_use_start[k] = t.in_use_start[k]
  /\ s.in_use_end[k] = t.in_use_end[k]
  /\ s.assigned[k] = t.assigned[k]

\* SpillAllRegisters of kind k leaves no register of the kind allocated and
\* no vreg mapped, the in-use bitmaps as they were and the allocator of the
\* other kind untouched.
SpillsAll(k) ==
  LET t == SpillAllRegisters(State, k) IN
  /\ t.allocated_bits[k] = {}
  /\ \A v \in VregIds : t.v2r[k][v] = Invalid
  /\ \A r \in RegIndices(k) : ~RegIsAllocated(t, k, r)
  /\ t.in_use_start[k] = in_use_start[k]
  /\ t.in_use_end[k] = in_use_end[k]
  /\ \A other \in Kinds \ {k} : SameAllocatorState(State, t, other)

\* C33: SpillAllRegisters spills every allocated register of its kind:
\* afterwards allocated_registers_bits is zero and no vreg maps to a register,
\* while the in-use bitmaps are unchanged. On a clobbering instruction it runs
\* after the outputs are committed, so the output registers of the instruction
\* are not spilled by the clobber, and a clobber of one kind leaves the
\* allocator of the other kind unchanged.
C33_SpillAllRegisters ==
  [][/\ pc.phase \in {"alloc", "end_block"} => \A k \in Kinds : SpillsAll(k)
     /\ (pc.phase = "alloc" /\ pc.step = "clobber") =>
          /\ \A loc \in OperandLocs(pc.instr, "out") :
               /\ Handled(loc)
               /\ ops'[loc] = ops[loc]
               /\ IsRegisterOperand(ops[loc]) =>
                    FromRegCode(KindOfRep(ops[loc].rep), ops[loc].index)
                      \notin allocated_bits[KindOfRep(ops[loc].rep)]
          /\ InstructionAt(pc.instr).clobbers =>
               allocated_bits'["general"] = {} /\ in_use_end'["general"] = in_use_end["general"]
          /\ InstructionAt(pc.instr).clobbers_double =>
               allocated_bits'["double"] = {} /\ in_use_end'["double"] = in_use_end["double"]
          /\ ~InstructionAt(pc.instr).clobbers => SameAllocatorState(State, State', "general")
          /\ ~InstructionAt(pc.instr).clobbers_double =>
               SameAllocatorState(State, State', "double")]_vars

\* An instruction that clobbers the general registers has its output in a
\* register and is about to spill a register that holds a vreg.
C33_Witness ==
  /\ pc.phase = "alloc" /\ pc.step = "clobber"
  /\ InstructionAt(pc.instr).clobbers
  /\ allocated_bits["general"] # {}
  /\ \E loc \in OperandLocs(pc.instr, "out") : IsRegisterOperand(ops[loc])

\* The slots the spill slot allocator sa knows.
SlotsOf(sa) == sa.allocated_slots \cup Elements(sa.free_slots)

\* The slots of the allocator that are free once it has advanced to start.
FreeAt(start) ==
  Elements(slot_alloc.free_slots) \cup
    {t \in slot_alloc.allocated_slots : last_use(t) < start}

\* The vregs that the step gave a stack slot.
AllocatedInStep ==
  {v \in VregIds : pc.phase = "slots" /\ SpillOperandRank(v) = 1 /\ SpillOperandRank(v)' = 2}

\* C34: the spill slot allocator reuses a free slot only when its byte width
\* equals the byte width of the representation of the vreg and otherwise
\* requests a new slot of that width from the frame; so the resolved spill
\* slot of every vreg has the byte width of its representation; a slot moves
\* to the free list only when its last use is strictly smaller than the start
\* of the range being allocated.
C34_SlotWidths ==
  [][\A v \in AllocatedInStep :
       LET width == ByteWidthForStackSlot(RepresentationFor(v))
           start == vdata[v].live_range.start
           index == ops'[vdata'[v].spill_operand].index
           reused == {t \in SlotsOf(slot_alloc) : t.stack_slot = index}
           fresh == FrameAllocateSpillSlot(frame, width)
       IN /\ ops'[vdata'[v].spill_operand] =
               AllocatedOperand("STACK_SLOT", RepresentationFor(v), index)
          /\ \E t \in slot_alloc'.allocated_slots :
               /\ t.stack_slot = index /\ t.byte_width = width
               /\ Contains(t.range, start) /\ Contains(t.range, vdata[v].live_range.end)
          /\ reused # {} <=> \E t \in FreeAt(start) : t.byte_width = width
          /\ reused # {} =>
               /\ reused \subseteq FreeAt(start)
               /\ \A t \in reused : t.byte_width = width
               /\ frame' = frame
          /\ reused = {} => frame' = fresh.frame /\ index = fresh.slot
          /\ \A t \in Elements(slot_alloc'.free_slots) :
               t \in FreeAt(start) /\ t.stack_slot # index
          /\ \A t \in slot_alloc.allocated_slots :
               last_use(t) >= start => t \in slot_alloc'.allocated_slots
          /\ \A t \in SlotsOf(slot_alloc) : \A u \in SlotsOf(slot_alloc') :
               t.stack_slot = u.stack_slot => t.byte_width = u.byte_width]_vars

\* The allocator is about to place a vreg while a slot of another width is
\* free and none of its own width is.
C34_Witness ==
  /\ pc.phase = "slots"
  /\ \E v \in NextToAllocate(State) :
       /\ FreeAt(vdata[v].live_range.start) # {}
       /\ \A t \in FreeAt(vdata[v].live_range.start) :
            t.byte_width # ByteWidthForStackSlot(RepresentationFor(v))

\* C35: EndInstruction clears in_use_at_instr_start and in_use_at_instr_end
\* and leaves allocated_registers, the vreg to register map and the register
\* state (vreg, last use, pending chains) unchanged; within the block
\* allocated_registers changes only through AssignRegister, which maps a vreg
\* to the register, and FreeRegister, which leaves no vreg mapped to it.
C35_EndInstruction ==
  [][/\ (pc.phase = "alloc" /\ pc.step = "end_instruction") =>
          /\ \A k \in Kinds : in_use_start'[k] = {} /\ in_use_end'[k] = {}
          /\ allocated_bits' = allocated_bits
          /\ v2r' = v2r /\ regs' = regs /\ has_state' = has_state
          /\ ops' = ops /\ vdata' = vdata /\ assigned' = assigned
          /\ \A k \in Kinds : EndInstructionFor(State, k).allocated_bits = allocated_bits
     /\ pc.phase \notin {"alloc", "end_block"} => allocated_bits' = allocated_bits
     /\ \A k \in Kinds :
          /\ \A r \in allocated_bits'[k] \ allocated_bits[k] :
               \E v \in VregIds : v2r'[k][v] = r /\ regs'[k][r].virtual_register = v
          /\ \A r \in allocated_bits[k] \ allocated_bits'[k] :
               \A v \in VregIds : v2r'[k][v] # r]_vars

\* EndInstruction is about to run with registers in use at the start and at
\* the end of the instruction and a register that holds a vreg with a
\* pending use.
C35_Witness ==
  /\ pc.phase = "alloc" /\ pc.step = "end_instruction"
  /\ \E k \in Kinds :
       /\ in_use_start[k] # {} /\ in_use_end[k] # {}
       /\ \E r \in allocated_bits[k] : PendingUseChain(k, r) # <<>>

\* The instruction indices of the program, with one position past the last.
RangeIndices == 0 .. NumInstr

\* The ranges the allocator holds (live ranges of vregs, ranges of spill
\* slots) and the default range.
Ranges ==
  {vdata[v].live_range : v \in VregIds} \cup {slot.range : slot \in SlotsOf(slot_alloc)}
    \cup {EmptyRange}

\* Only ranges with start <= end, and the default range, are ever built.
WellFormedRange(r) == r = EmptyRange \/ (0 <= r.start /\ r.start <= r.end)

\* The indices a range contains.
Members(r) == {i \in RangeIndices : Contains(r, i)}

\* The smallest interval of indices that contains S.
Hull(S) ==
  {i \in RangeIndices : (\E a \in S : a <= i) /\ (\E b \in S : i <= b)}

FrameRegisters(rep) ==
  IF KindOfRep(rep) = "double" THEN frame.allocated_double_registers
  ELSE frame.allocated_registers

\* The allocated register operands of instructions and gap moves.
RegisterOperandLocs == {loc \in DOMAIN ops : IsRegisterOperand(ops[loc])}

\* C37: after AllocateRegisters every physical register that appears in an
\* allocated register operand of an instruction or gap move is in the
\* assigned_registers bit vector of its kind handed to the frame.
C37_OperandRegistersAssigned ==
  Done => \A loc \in RegisterOperandLocs :
            ops[loc].index \in FrameRegisters(ops[loc].rep)

\* The registers of kind k that the register state reports as allocated.
StateAllocated(k) == {r \in RegIndices(k) : RegIsAllocated(State, k, r)}

\* The registers that the step wrote into an operand of the instruction or
\* into a gap move without their holding a vreg afterwards: temps, committed
\* outputs and uses with a move.
UsedInPassing(k) ==
  {r \in RegIndices(k) :
     /\ r \notin StateAllocated(k)'
     /\ \E loc \in DOMAIN ops' :
          /\ IsRegisterOperand(ops'[loc]) /\ KindOfRep(ops'[loc].rep) = k
          /\ ops'[loc].index = ToRegCode(k, r)
          /\ (loc \notin DOMAIN ops \/ ops[loc] # ops'[loc])}

\* C38: in every reachable state inside a block a register's bit is set in
\* allocated_registers_bits exactly when the register state reports the
\* register as allocated, and the vreg to register map names exactly those
\* registers; a register that a step only uses for a temp, a committed output
\* or a use with a move is not in allocated_registers_bits after the step.
C38_AllocatedBitsMatchState ==
  /\ [](\A k \in Kinds :
          /\ has_state[k] => allocated_bits[k] = StateAllocated(k)
          /\ ~has_state[k] => allocated_bits[k] = {}
          /\ allocated_bits[k] = {r \in RegIndices(k) : \E v \in VregIds : v2r[k][v] = r})
  /\ [][\A k \in Kinds : UsedInPassing(k) \cap allocated_bits'[k] = {}]_vars

\* Inside a block one register holds a vreg and has its bit set while the
\* other register, committed to an output of the instruction, is in use at
\* the end of the instruction and has no bit set.
C38_Witness ==
  /\ pc.phase = "alloc"
  /\ \E k \in Kinds : \E r \in allocated_bits[k] :
       \E q \in in_use_end[k] \ allocated_bits[k] :
         /\ RegIsAllocated(State, k, r) /\ q # r
         /\ \E loc \in OperandLocs(pc.instr, "out") :
              /\ IsRegisterOperand(ops[loc]) /\ KindOfRep(ops[loc].rep) = k
              /\ ops[loc].index = ToRegCode(k, q)

\* The use position of operand c of instruction i: End for an output, All
\* for a temp, Start for an input used at start and All for any other input.
UsePositionOf(i, c) ==
  CASE c[1] = "out" -> "kEnd"
    [] c[1] = "tmp" -> "kAll"
    [] c[1] = "in" ->
         IF Original.ops[InstrLoc(i, "in", c[2])].at_start THEN "kStart" ELSE "kAll"

\* Operands c and d of instruction i are for different vregs; a temp has a
\* vreg of its own.
DifferentVregs(i, c, d) ==
  /\ c # d
  /\ \/ c[1] = "tmp" \/ d[1] = "tmp"
     \/ Original.ops[InstrLoc(i, c[1], c[2])].vreg # Original.ops[InstrLoc(i, d[1], d[2])].vreg

\* Operands c and d of instruction i are allocated to the same register.
ShareRegister(i, c, d) ==
  LET x == ops[InstrLoc(i, c[1], c[2])]
      y == ops[InstrLoc(i, d[1], d[2])]
  IN /\ IsRegisterOperand(x) /\ IsRegisterOperand(y)
     /\ KindOfRep(x.rep) = KindOfRep(y.rep) /\ x.index = y.index

\* C39: within one instruction two operands of different vregs whose use
\* positions overlap (Start with Start or All, End with End or All) are never
\* assigned the same physical register.
C39_NoSharedRegister ==
  \A i \in InstrIds : FullyAllocated(i) =>
    \A c \in OperandSlots(i), d \in OperandSlots(i) :
      (DifferentVregs(i, c, d) /\ Overlap(UsePositionOf(i, c), UsePositionOf(i, d)))
        => ~ShareRegister(i, c, d)


\* The output of instruction i has the same-as-first-input policy and c and
\* d are that output and the first input.
SameAsInputPair(i, c, d) ==
  i \in SameAsInputInstrs /\ {c, d} = {<<"out", 0>>, <<"in", 0>>}

\* C39 (amended): within one instruction two operands of different vregs
\* whose use positions overlap (Start with Start or All, End with End or All)
\* are never assigned the same physical register, except an output with the
\* same-as-first-input policy and the first input, which share the register
\* of the output whatever the use position of the input.
C39_NoSharedRegisterButSameAsInput ==
  \A i \in InstrIds : FullyAllocated(i) =>
    \A c \in OperandSlots(i), d \in OperandSlots(i) :
      (/\ DifferentVregs(i, c, d)
       /\ Overlap(UsePositionOf(i, c), UsePositionOf(i, d))
       /\ ~SameAsInputPair(i, c, d))
        => ~ShareRegister(i, c, d)

\* An instruction is about to end with an output and an input not used at
\* start, of different vregs, in two registers of one kind.
C39_Witness ==
  /\ pc.phase = "alloc" /\ pc.step = "end_instruction"
  /\ \E c \in OperandSlots(pc.instr), d \in OperandSlots(pc.instr) :
       /\ c[1] = "out" /\ d[1] = "in" /\ UsePositionOf(pc.instr, d) = "kAll"
       /\ DifferentVregs(pc.instr, c, d)
       /\ IsRegisterOperand(ops[InstrLoc(pc.instr, "out", c[2])])
       /\ IsRegisterOperand(ops[InstrLoc(pc.instr, "in", d[2])])
       /\ KindOfRep(ops[InstrLoc(pc.instr, "out", c[2])].rep) =
            KindOfRep(ops[InstrLoc(pc.instr, "in", d[2])].rep)
       /\ ~ShareRegister(pc.instr, c, d)


\* The references to the elements of slice s, in increasing offset order.
ElementReferences(s) ==
  [n \in 1 .. s.length |-> NewReference(s.T, s.object, s.offset + (n - 1) * SizeOf(s.T))]

\* What a caller that keeps asking gets from an iterator over the items:
\* every item through return, then NoMore.
AllThenNoMore(items) ==
  [n \in 1 .. (Len(items) + 1) |->
     IF n <= Len(items) THEN Return(items[n]) ELSE GotoLabel("NoMore")]

IsPrefix(p, q) == Len(p) <= Len(q) /\ p = SubSeq(q, 1, Len(p))

\* The elements the references point at.
Elems(refs) == [n \in 1 .. Len(refs) |-> Deref(refs[n])]

\* C40: Slice.TryAtIndex(index) returns a reference at offset + index *
\* SizeOf<T> exactly when 0 <= index < length and jumps to OutOfBounds
\* otherwise, also for every negative index; the SliceIterator made by
\* Slice.Iterator() yields the references to the length elements in
\* increasing offset order and then NoMore; the IteratorSequence yields all
\* elements of the first iterator, then all of the second, and reports NoMore
\* exactly when Empty() is true.
C40_SlicesAndIterators ==
  /\ lookup # <<>> =>
       LET this == slices[1]
           index == lookup.index
       IN IF 0 <= index /\ index < this.length
          THEN lookup.result =
                 Return(NewReference(this.T, this.object,
                                     this.offset + index * SizeOf(this.T)))
          ELSE lookup.result = GotoLabel("OutOfBounds")
  /\ IsPrefix(iter_yield, AllThenNoMore(ElementReferences(slices[1])))
  /\ Empty(iter) <=> Len(iter_yield) >= slices[1].length
  /\ IsPrefix(seq_yield,
              AllThenNoMore(Elems(ElementReferences(slices[1]) \o ElementReferences(slices[2]))))
  /\ IteratorSequenceEmpty(iter_seq) <=>
       Len(seq_yield) >= slices[1].length + slices[2].length
  /\ IteratorSequenceNext(iter_seq).out.label = "NoMore" <=> IteratorSequenceEmpty(iter_seq)
  /\ NextReference(iter).out.label = "NoMore" <=> Empty(iter)

\* A lookup at a negative index went to OutOfBounds, and both the iterator
\* over the first slice and the sequence over two slices that are not empty
\* have yielded every element and then NoMore.
C40_Witness ==
  /\ lookup # <<>> /\ lookup.index < 0 /\ lookup.result.label = "OutOfBounds"
  /\ slices[1].length > 1 /\ slices[2].length > 0
  /\ Len(iter_yield) = slices[1].length + 1
  /\ Len(seq_yield) = slices[1].length + slices[2].length + 1
  /\ seq_yield[Len(seq_yield)].label = "NoMore"

====
